---- MODULE Spec2Model ----
(***************************************************************************)
(* Model of the BLS batch signature-verification worker of lodestar:       *)
(* runBlsWorkReq (src/unnamed/part_002) with its two collaborators, the    *)
(* chunker chunkifyMaximizeChunkSize and the primitive asyncVerifySets.    *)
(*                                                                         *)
(* One execution of runBlsWorkReq is a "run".  The locals of the function  *)
(* are the variables below, each a function of the run, so that several    *)
(* executions can be in flight at once, as they are when two calls         *)
(* interleave at their await points.  Array positions are 1-based here:    *)
(* index i of the model is index i-1 of the JavaScript arrays.             *)
(***************************************************************************)
EXTENDS Integers, Sequences, FiniteSets, TLC

\* ------------------------------------------------------------------ bounds

\* Most jobs of one request.
MaxJobs == 3

\* Most jobs of a request when two requests are in flight together.
MaxPairJobs == 2

\* Most jobs of a request made to exercise the chunker.
MaxChunkJobs == 17

\* ---------------------------------------------------------------- constants

BATCHABLE_MIN_PER_CHUNK == 16

\* The executions of runBlsWorkReq that the model follows.
Runs == {1, 2}

\* ------------------------------------------------------------------- inputs

\* What the primitive finds in one signature set: it verifies, it does not
\* verify, it cannot be deserialized, or it carries an identity point, which
\* the multi-set path of the primitive rejects by raising while the
\* single-set path answers false.
SetKinds == {"valid", "invalid", "malformed", "identity"}

\* Set counts of the jobs of a request: no set, one set, a full chunk of sets.
Weights == {0, 1, BATCHABLE_MIN_PER_CHUNK}

\* The sets of a job: n sets, all valid but the last, which is of kind `last`.
SetsOf(n, last) == [k \in 1..n |-> IF k = n THEN last ELSE "valid"]

JobSets == {SetsOf(n, last) : n \in Weights, last \in SetKinds}

\* BlsWorkReq: {opts: {batchable}, sets}.
BlsWorkReqs == [sets : JobSets, opts : [batchable : BOOLEAN]]

\* The request arrays runBlsWorkReq is called with.
Requests == UNION {[1..n -> BlsWorkReqs] : n \in 0..MaxJobs}

\* The jobs of the requests that are run twice, the second time with the sets
\* of one non-batchable job changed: one valid, invalid or throwing set, or a
\* full chunk of valid sets.
JobSetsIso ==
  {SetsOf(1, last) : last \in {"valid", "invalid", "malformed"}}
    \cup {SetsOf(BATCHABLE_MIN_PER_CHUNK, "valid")}

RequestsIso ==
  UNION {[1..n -> [sets : JobSetsIso, opts : [batchable : BOOLEAN]]] : n \in 0..MaxJobs}

\* The jobs of two requests in flight together: a batchable job that
\* verifies, one that fills a chunk, one that does not verify, and a
\* non-batchable job on which the primitive throws.
PairJobs ==
  {[sets |-> SetsOf(1, "valid"), opts |-> [batchable |-> TRUE]],
   [sets |-> SetsOf(BATCHABLE_MIN_PER_CHUNK, "valid"), opts |-> [batchable |-> TRUE]],
   [sets |-> SetsOf(1, "invalid"), opts |-> [batchable |-> TRUE]],
   [sets |-> SetsOf(1, "malformed"), opts |-> [batchable |-> FALSE]]}

RequestsPair == UNION {[1..n -> PairJobs] : n \in 0..MaxPairJobs}

\* Set counts of the jobs of the requests made to exercise the chunker.
ChunkWeights == {0, 1, 5, BATCHABLE_MIN_PER_CHUNK}

\* Requests of n batchable jobs whose set counts alternate between a and b;
\* every set verifies, but for the last set of the last job, of kind `last`.
ChunkRequests ==
  {[k \in 1..n |->
      [sets |-> SetsOf(IF k % 2 = 1 THEN a ELSE b, IF k = n THEN last ELSE "valid"),
       opts |-> [batchable |-> TRUE]]] :
     n \in 0..MaxChunkJobs, a \in ChunkWeights, b \in ChunkWeights,
     last \in {"valid", "invalid"}}

\* ----------------------------------------------------------------- helpers

Max(S) == CHOOSE x \in S : \A y \in S : y <= x

\* Array.prototype.length of a JavaScript array written by index: one more
\* than the highest index written (holes count), 0 when nothing was written.
ArrayLength(arr) == IF DOMAIN arr = {} THEN 0 ELSE Max(DOMAIN arr)

\* results[idx] = value.
ArraySet(arr, idx, value) == (idx :> value) @@ arr

EmptyArray == [i \in {} |-> 0]

\* ---------------------------------------------------------------- primitive

Returned(v) == [kind |-> "ok", value |-> v]
Threw(e) == [kind |-> "throw", error |-> e]

\* verify_many: true iff all sets verify, false iff at least one does not;
\* raises on ill-formed input and, on the multi-set path, on an identity point.
asyncVerifySets(sets) ==
  IF \E k \in 1..Len(sets) : sets[k] = "malformed"
    THEN Threw("InvalidInput")
  ELSE IF Len(sets) >= 2 /\ \E k \in 1..Len(sets) : sets[k] = "identity"
    THEN Threw("PrimitiveFault")
  ELSE Returned(\A k \in 1..Len(sets) : sets[k] = "valid")

\* ------------------------------------------------------------------ chunker

RECURSIVE Weight(_)
\* Total set count of a list of {idx, sets} items.
Weight(items) ==
  IF items = <<>> THEN 0 ELSE Len(Head(items).sets) + Weight(Tail(items))

RECURSIVE Chunkify(_, _, _)
\* Greedy chunking: `open` is the chunk being filled; it is closed as soon as
\* its weight reaches minPerChunk, and what is left at the end is the tail chunk.
Chunkify(arr, open, minPerChunk) ==
  IF arr = <<>>
    THEN IF open = <<>> THEN <<>> ELSE <<open>>
  ELSE LET filled == Append(open, Head(arr))
       IN IF Weight(filled) >= minPerChunk
            THEN <<filled>> \o Chunkify(Tail(arr), <<>>, minPerChunk)
            ELSE Chunkify(Tail(arr), filled, minPerChunk)

RECURSIVE SliceEvery(_, _)
SliceEvery(arr, perChunk) ==
  IF Len(arr) <= perChunk THEN <<arr>>
  ELSE <<SubSeq(arr, 1, perChunk)>> \o SliceEvery(SubSeq(arr, perChunk + 1, Len(arr)), perChunk)

\* A chunker that counts items, not their sets: floor(length / minPerChunk)
\* chunks of equal length, one chunk when that is 0 or 1.
chunkifyByLength(arr, minPerChunk) ==
  LET chunkCount == Len(arr) \div minPerChunk
  IN IF chunkCount <= 1 THEN <<arr>>
     ELSE SliceEvery(arr, (Len(arr) + chunkCount - 1) \div chunkCount)

chunkifyMaximizeChunkSize(arr, minPerChunk) == Chunkify(arr, <<>>, minPerChunk)

\* ------------------------------------------------------------ runBlsWorkReq

VARIABLES
  pc,                \* where each run stands
  workReqArr,        \* the argument of the run
  results,           \* results: WorkResult<boolean>[]
  batchRetries,
  batchSigsSuccess,
  batchableSets,     \* {idx, sets}[]
  nonBatchableSets,  \* {idx, sets}[]
  batchableChunks,   \* the chunks of batchableSets
  chunkIdx,          \* the chunk the for..of of the batch phase stands at
  nbIdx,             \* the item the for..of of the individual phase stands at
  calls,             \* every call of asyncVerifySets the run made, in order
  writes,            \* every assignment results[idx] = .. the run made, in order
  ret,               \* the BlsWorkResult the run resolved with
  cancelSignal,      \* the host's cancellation signal, and results when it fired
  kmPc,              \* where the call of importKeystores stands
  keystores,         \* keystores: KeystoreStr[]
  passwords,         \* passwords: string[]
  slashingProtection,
  signers,           \* validator.validatorStore: pubkey -> signer type
  persistedKeys,     \* persistedKeysBackend: the pubkeys written to disk, locked
  slashingDb,        \* the pubkeys the validator holds slashing protection data of
  statuses,          \* statuses: {status, message?}[]
  decryptTasks,      \* the tasks queued on the DecryptKeystoresThreadPool
  settled,           \* the queued keystores in the order their callbacks completed
  kmRet,             \* what the keymanager call resolved with
  kmLog,             \* what the call did to the stores and the disk, in order
  pubkeys,           \* pubkeys: PubkeyHex[] of deleteKeys / deleteRemoteKeys
  deletedKey,        \* deletedKey: boolean[]
  duties,            \* the pubkeys the validator holds duties of
  persistedRemoteKeys,        \* persistedKeysBackend: the remote keys on disk
  proposerConfig,             \* validatorStore: pubkey -> proposer config
  persistedProposerConfig,    \* persistedKeysBackend: pubkey -> proposer config
  proposerConfigWriteDisabled

\* The state of runBlsWorkReq.
blsVars == <<pc, workReqArr, results, batchRetries, batchSigsSuccess, batchableSets,
             nonBatchableSets, batchableChunks, chunkIdx, nbIdx, calls, writes, ret,
             cancelSignal>>

\* The state of the KeymanagerApi.
\* What deleteKeys and deleteRemoteKeys hold beside the stores.
delVars == <<pubkeys, deletedKey, duties, persistedRemoteKeys>>

\* The proposer configuration.
propVars == <<proposerConfig, persistedProposerConfig, proposerConfigWriteDisabled>>

kmVars == <<kmPc, keystores, passwords, slashingProtection, signers, persistedKeys,
            slashingDb, statuses, decryptTasks, settled, kmRet, kmLog, delVars, propVars>>

vars == <<blsVars, kmVars>>

\* slashingProtection was not sent with the request.
NoSlashingProtection == [given |-> FALSE]

\* No key is to delete.
DelIdle ==
  /\ pubkeys = <<>>
  /\ deletedKey = EmptyArray
  /\ duties = {}
  /\ persistedRemoteKeys = {}

\* No proposer configuration is stored; writes are enabled.
PropIdle ==
  /\ proposerConfig = EmptyArray
  /\ persistedProposerConfig = EmptyArray
  /\ proposerConfigWriteDisabled = FALSE

\* No keymanager call is pending: nothing is stored, nothing is queued.
KmIdle ==
  /\ kmPc = "idle"
  /\ keystores = <<>>
  /\ passwords = <<>>
  /\ slashingProtection = NoSlashingProtection
  /\ signers = EmptyArray
  /\ persistedKeys = {}
  /\ slashingDb = {}
  /\ statuses = EmptyArray
  /\ decryptTasks = EmptyArray
  /\ settled = <<>>
  /\ kmRet = [returned |-> FALSE]
  /\ kmLog = <<>>
  /\ DelIdle
  /\ PropIdle

\* The signal has not fired.
NotCancelled == [fired |-> FALSE]

NoResult == [returned |-> FALSE]

\* WorkResult<boolean>
SuccessResult(isValid) == [code |-> "success", result |-> isValid]
ErrorResult(e) == [code |-> "error", error |-> e]

RECURSIVE SplitFromNoElse(_, _, _)
\* SplitFrom without its else: every job is pushed to nonBatchableSets, the
\* batchable ones too.
SplitFromNoElse(arr, i, flag) ==
  IF i > Len(arr) THEN <<>>
  ELSE (IF flag => arr[i].opts.batchable
          THEN <<[idx |-> i, sets |-> arr[i].sets]>>
          ELSE <<>>) \o SplitFromNoElse(arr, i + 1, flag)

RECURSIVE SplitFrom(_, _, _)
\* Lines 25-32: the items of the jobs from position i on whose opts.batchable
\* is `flag`, each with its original index.
SplitFrom(arr, i, flag) ==
  IF i > Len(arr) THEN <<>>
  ELSE (IF arr[i].opts.batchable = flag
          THEN <<[idx |-> i, sets |-> arr[i].sets]>>
          ELSE <<>>) \o SplitFrom(arr, i + 1, flag)

RECURSIVE AllSetsLastJobFirst(_)
\* AllSets putting the sets of each job in front of those gathered before.
AllSetsLastJobFirst(chunk) ==
  IF chunk = <<>> THEN <<>> ELSE AllSetsLastJobFirst(Tail(chunk)) \o Head(chunk).sets

RECURSIVE AllSets(_)
\* Lines 39-44: the sets of the chunk's jobs, job after job.
AllSets(chunk) ==
  IF chunk = <<>> THEN <<>> ELSE Head(chunk).sets \o AllSets(Tail(chunk))

\* The original indices of a list of items.
Idxs(items) == [k \in 1..Len(items) |-> items[k].idx]

\* Locals with batchRetries declared outside the function: one counter for
\* all the runs.
LocalsSharedCounter(r) ==
  [results |-> results[r],
   writes |-> writes[r],
   batchRetries |-> batchRetries[1] + batchRetries[2],
   batchSigsSuccess |-> batchSigsSuccess[r],
   nonBatchableSets |-> nonBatchableSets[r],
   uncaught |-> FALSE]

\* Locals with nonBatchableSets declared outside the function: the list of
\* the first run is the list of every run.
LocalsSharedJobList(r) ==
  [results |-> results[r],
   writes |-> writes[r],
   batchRetries |-> batchRetries[r],
   batchSigsSuccess |-> batchSigsSuccess[r],
   nonBatchableSets |-> nonBatchableSets[1],
   uncaught |-> FALSE]

\* The locals of run r that the two loops read and write.  `writes` is the
\* record of the assignments to results, kept with the array itself.
Locals(r) ==
  [results |-> results[r],
   writes |-> writes[r],
   batchRetries |-> batchRetries[r],
   batchSigsSuccess |-> batchSigsSuccess[r],
   nonBatchableSets |-> nonBatchableSets[r],
   uncaught |-> FALSE]

\* results[idx] = value, written by the batch phase or the individual phase.
Assign(L, idx, by, value) ==
  [L EXCEPT !.results = ArraySet(@, idx, value),
            !.writes = Append(@, [idx |-> idx, by |-> by, value |-> value])]

RECURSIVE BatchVerifiedCountsJobs(_, _, _)
\* BatchVerified counting one per job instead of the job's sets.
BatchVerifiedCountsJobs(L, chunk, isValid) ==
  IF chunk = <<>> THEN L
  ELSE BatchVerifiedCountsJobs(
         Assign([L EXCEPT !.batchSigsSuccess = @ + 1],
                Head(chunk).idx, "batch", SuccessResult(isValid)),
         Tail(chunk), isValid)

RECURSIVE BatchVerifiedAlsoRetries(_, _, _)
\* BatchVerified pushing the jobs it has marked to nonBatchableSets as well.
BatchVerifiedAlsoRetries(L, chunk, isValid) ==
  IF chunk = <<>> THEN L
  ELSE BatchVerifiedAlsoRetries(
         Assign([L EXCEPT !.batchSigsSuccess = @ + Len(Head(chunk).sets),
                          !.nonBatchableSets = Append(@, Head(chunk))],
                Head(chunk).idx, "batch", SuccessResult(isValid)),
         Tail(chunk), isValid)

RECURSIVE BatchVerified(_, _, _)
\* Lines 50-55: the batch call returned true.
BatchVerified(L, chunk, isValid) ==
  IF chunk = <<>> THEN L
  ELSE BatchVerified(
         Assign([L EXCEPT !.batchSigsSuccess = @ + Len(Head(chunk).sets)],
                Head(chunk).idx, "batch", SuccessResult(isValid)),
         Tail(chunk), isValid)

\* BatchFailed without the push: the chunk's jobs are dropped.
BatchFailedDropsJobs(L, chunk) ==
  [L EXCEPT !.batchRetries = @ + 1]

RECURSIVE MarkInvalid(_, _)
MarkInvalid(L, chunk) ==
  IF chunk = <<>> THEN L
  ELSE MarkInvalid(Assign(L, Head(chunk).idx, "batch", SuccessResult(FALSE)),
                   Tail(chunk))

\* BatchFailed answering false for every job of the chunk instead of
\* verifying each again.
BatchFailedMarksInvalid(L, chunk) ==
  MarkInvalid([L EXCEPT !.batchRetries = @ + 1], chunk)

\* BatchFailed putting the chunk's jobs in front of nonBatchableSets.
BatchFailedPrepends(L, chunk) ==
  [L EXCEPT !.batchRetries = @ + 1,
            !.nonBatchableSets = chunk \o @]

\* Lines 56-60: the batch call returned false.
BatchFailed(L, chunk) ==
  [L EXCEPT !.batchRetries = @ + 1,
            !.nonBatchableSets = @ \o chunk]

RECURSIVE MarkError(_, _, _)
MarkError(L, chunk, e) ==
  IF chunk = <<>> THEN L
  ELSE MarkError(Assign(L, Head(chunk).idx, "batch", ErrorResult(e)),
                 Tail(chunk), e)

\* BatchThrew reporting the error to every job of the chunk.
BatchThrewSurfaces(L, chunk, e) ==
  MarkError([L EXCEPT !.batchRetries = @ + 1], chunk, e)

\* BatchThrew without its batchRetries++.
BatchThrewNoRetry(L, chunk, e) ==
  [L EXCEPT !.nonBatchableSets = @ \o chunk]

\* BatchThrew without the catch: the rejection of the primitive leaves
\* runBlsWorkReq.
BatchThrewUncaught(L, chunk, e) ==
  [L EXCEPT !.uncaught = TRUE]

\* BatchThrew counting the retry once in the catch and once more.
BatchThrewCountsTwice(L, chunk, e) ==
  [L EXCEPT !.batchRetries = @ + 1 + 1,
            !.nonBatchableSets = @ \o chunk]

\* Lines 61-67: the batch call threw e.
BatchThrew(L, chunk, e) ==
  [L EXCEPT !.batchRetries = @ + 1,
            !.nonBatchableSets = @ \o chunk]

\* IndividualVerified answering true whatever the call returned.
IndividualVerifiedIgnoresVerdict(L, item, isValid) ==
  Assign(L, item.idx, "single", SuccessResult(TRUE))

\* IndividualVerified reporting a false verdict as an error.
IndividualVerifiedFalseIsError(L, item, isValid) ==
  Assign(L, item.idx, "single",
         IF isValid THEN SuccessResult(isValid) ELSE ErrorResult("Invalid"))

\* IndividualVerified looking at the host's signal first and answering
\* Error{Cancelled} once it has fired.
IndividualVerifiedHonoursCancel(L, item, isValid) ==
  Assign(L, item.idx, "single",
         IF \E r \in Runs : cancelSignal[r].fired
           THEN ErrorResult("Cancelled")
           ELSE SuccessResult(isValid))

\* Line 74: the call for the job alone returned isValid.
IndividualVerified(L, item, isValid) ==
  Assign(L, item.idx, "single", SuccessResult(isValid))

\* IndividualThrew answering false instead of reporting the error.
IndividualThrewReportsFalse(L, item, e) ==
  Assign(L, item.idx, "single", SuccessResult(FALSE))

\* IndividualThrew counting the throw as a batch retry.
IndividualThrewCountsRetry(L, item, e) ==
  Assign([L EXCEPT !.batchRetries = @ + 1], item.idx, "single", ErrorResult(e))

\* Lines 75-77: the call for the job alone threw e.
IndividualThrew(L, item, e) ==
  Assign(L, item.idx, "single", ErrorResult(e))

Call(phase, items, sets, out) ==
  [phase |-> phase, jobs |-> Idxs(items), sets |-> sets, out |-> out]

\* No run has executed a line yet.
NothingRun ==
  /\ results = [r \in Runs |-> EmptyArray]
  /\ batchRetries = [r \in Runs |-> 0]
  /\ batchSigsSuccess = [r \in Runs |-> 0]
  /\ batchableSets = [r \in Runs |-> <<>>]
  /\ nonBatchableSets = [r \in Runs |-> <<>>]
  /\ batchableChunks = [r \in Runs |-> <<>>]
  /\ chunkIdx = [r \in Runs |-> 1]
  /\ nbIdx = [r \in Runs |-> 1]
  /\ calls = [r \in Runs |-> <<>>]
  /\ writes = [r \in Runs |-> <<>>]
  /\ ret = [r \in Runs |-> NoResult]
  /\ cancelSignal = [r \in Runs |-> NotCancelled]

InitWith(reqs) ==
  \E req \in reqs :
    /\ workReqArr = [r \in Runs |-> IF r = 1 THEN req ELSE <<>>]
    /\ pc = [r \in Runs |-> IF r = 1 THEN "entry" ELSE "idle"]
    /\ NothingRun
    /\ KmIdle

\* One call of runBlsWorkReq is pending, with any request array.
Init == InitWith(Requests)

\* ChunksOf without the guard of line 34: the chunker is handed the empty
\* list and the batch phase gets one chunk with no job.
ChunksOfNoGuard(batchable) ==
  IF Len(batchable) > 0
    THEN chunkifyMaximizeChunkSize(batchable, BATCHABLE_MIN_PER_CHUNK)
    ELSE <<batchable>>

\* ChunksOf making no chunk of fewer sets than the threshold.
ChunksOfSkipsUndersized(batchable) ==
  IF Weight(batchable) >= BATCHABLE_MIN_PER_CHUNK
    THEN chunkifyMaximizeChunkSize(batchable, BATCHABLE_MIN_PER_CHUNK)
    ELSE <<>>

\* ChunksOf handing the chunker half the threshold.
ChunksOfHalfThreshold(batchable) ==
  IF Len(batchable) > 0
    THEN chunkifyMaximizeChunkSize(batchable, BATCHABLE_MIN_PER_CHUNK \div 2)
    ELSE <<>>

\* Lines 34-36: the chunks of the batchable jobs, none when no job is batchable.
ChunksOf(batchable) ==
  IF Len(batchable) > 0
    THEN chunkifyMaximizeChunkSize(batchable, BATCHABLE_MIN_PER_CHUNK)
    ELSE <<>>

\* Lines 14-36: the locals, the split and the chunks; the run then stands at
\* the first await of the batch phase, or of the individual phase when no job
\* is batchable.
Split(r) ==
  /\ pc[r] = "entry"
  /\ LET batchable == SplitFrom(workReqArr[r], 1, TRUE)
         chunks == ChunksOf(batchable)
     IN /\ batchableSets' = [batchableSets EXCEPT ![r] = batchable]
        /\ nonBatchableSets' =
             [nonBatchableSets EXCEPT ![r] = SplitFrom(workReqArr[r], 1, FALSE)]
        /\ batchableChunks' = [batchableChunks EXCEPT ![r] = chunks]
        /\ pc' = [pc EXCEPT ![r] = IF chunks = <<>> THEN "single" ELSE "batch"]
  /\ results' = [results EXCEPT ![r] = EmptyArray]
  /\ batchRetries' = [batchRetries EXCEPT ![r] = 0]
  /\ batchSigsSuccess' = [batchSigsSuccess EXCEPT ![r] = 0]
  /\ chunkIdx' = [chunkIdx EXCEPT ![r] = 1]
  /\ nbIdx' = [nbIdx EXCEPT ![r] = 1]
  /\ UNCHANGED <<workReqArr, calls, writes, ret, cancelSignal,
                 kmVars>>

\* The locals of run r become L.
Store(r, L) ==
  /\ results' = [results EXCEPT ![r] = L.results]
  /\ writes' = [writes EXCEPT ![r] = L.writes]
  /\ batchRetries' = [batchRetries EXCEPT ![r] = L.batchRetries]
  /\ batchSigsSuccess' = [batchSigsSuccess EXCEPT ![r] = L.batchSigsSuccess]
  /\ nonBatchableSets' = [nonBatchableSets EXCEPT ![r] = L.nonBatchableSets]

\* Lines 38-68, one iteration: the batch call of one chunk and what follows it.
TryBatch(r) ==
  /\ pc[r] = "batch"
  /\ LET chunk == batchableChunks[r][chunkIdx[r]]
         allSets == AllSets(chunk)
         out == asyncVerifySets(allSets)
         L == IF out.kind = "throw" THEN BatchThrew(Locals(r), chunk, out.error)
              ELSE IF out.value THEN BatchVerified(Locals(r), chunk, out.value)
              ELSE BatchFailed(Locals(r), chunk)
     IN /\ calls' = [calls EXCEPT ![r] = Append(@, Call("batch", chunk, allSets, out))]
        /\ Store(r, L)
        /\ pc' = [pc EXCEPT ![r] =
                    IF L.uncaught THEN "rejected"
                    ELSE IF chunkIdx[r] = Len(batchableChunks[r]) THEN "single"
                    ELSE "batch"]
  /\ chunkIdx' = [chunkIdx EXCEPT ![r] = @ + 1]
  /\ UNCHANGED <<workReqArr, batchableSets, batchableChunks, nbIdx, ret, cancelSignal,
                 kmVars>>

\* Lines 71-78, one iteration: the call for one job alone and its entry.
VerifyIndividually(r) ==
  /\ pc[r] = "single"
  /\ nbIdx[r] <= Len(nonBatchableSets[r])
  /\ LET item == nonBatchableSets[r][nbIdx[r]]
         out == asyncVerifySets(item.sets)
         L == IF out.kind = "throw" THEN IndividualThrew(Locals(r), item, out.error)
              ELSE IndividualVerified(Locals(r), item, out.value)
     IN /\ calls' = [calls EXCEPT ![r] = Append(@, Call("single", <<item>>, item.sets, out))]
        /\ Store(r, L)
        /\ pc' = [pc EXCEPT ![r] = IF L.uncaught THEN "rejected" ELSE "single"]
  /\ nbIdx' = [nbIdx EXCEPT ![r] = @ + 1]
  /\ UNCHANGED <<workReqArr, batchableSets, batchableChunks, chunkIdx, ret, cancelSignal,
                 kmVars>>

\* Lines 80-89.  The two hrtime readings are the number of primitive calls
\* completed when each is taken: none at entry, all of them at the end.
Return(r) ==
  /\ pc[r] = "single"
  /\ nbIdx[r] > Len(nonBatchableSets[r])
  /\ ret' = [ret EXCEPT ![r] =
               [returned |-> TRUE,
                batchRetries |-> batchRetries[r],
                batchSigsSuccess |-> batchSigsSuccess[r],
                workerStartTime |-> 0,
                workerEndTime |-> Len(calls[r]),
                results |-> results[r]]]
  /\ pc' = [pc EXCEPT ![r] = "done"]
  /\ UNCHANGED <<workReqArr, results, batchRetries, batchSigsSuccess, batchableSets,
                 nonBatchableSets, batchableChunks, chunkIdx, nbIdx, calls, writes,
                 cancelSignal,
                 kmVars>>

Next ==
  \E r \in Runs :
    \/ Split(r)
    \/ TryBatch(r)
    \/ VerifyIndividually(r)
    \/ Return(r)

Spec == Init /\ [][Next]_vars

\* The request of run 1, which has returned, is submitted again as run 2 with
\* the sets of one of its non-batchable jobs replaced.
Resubmit ==
  /\ pc[1] = "done"
  /\ pc[2] = "idle"
  /\ \E j \in 1..Len(workReqArr[1]) : \E sets \in JobSetsIso :
       /\ ~workReqArr[1][j].opts.batchable
       /\ workReqArr' = [workReqArr EXCEPT ![2] = [workReqArr[1] EXCEPT ![j].sets = sets]]
  /\ pc' = [pc EXCEPT ![2] = "entry"]
  /\ UNCHANGED <<results, batchRetries, batchSigsSuccess, batchableSets,
                 nonBatchableSets, batchableChunks, chunkIdx, nbIdx, calls, writes, ret,
                 cancelSignal,
                 kmVars>>

InitIso == InitWith(RequestsIso)

NextIso == Next \/ Resubmit

\* One request, then the same request with one non-batchable job changed.
SpecIso == InitIso /\ [][NextIso]_vars

\* The host fires its cancellation signal for run r, which stands at an
\* await; what results holds at that moment is kept with the signal.
Cancel(r) ==
  /\ pc[r] \in {"batch", "single"}
  /\ ~cancelSignal[r].fired
  /\ cancelSignal' = [cancelSignal EXCEPT ![r] = [fired |-> TRUE, emitted |-> results[r]]]
  /\ UNCHANGED <<pc, workReqArr, results, batchRetries, batchSigsSuccess, batchableSets,
                 nonBatchableSets, batchableChunks, chunkIdx, nbIdx, calls, writes, ret,
                 kmVars>>

NextCancel == Next \/ \E r \in Runs : Cancel(r)

\* One request, during which the host may fire its cancellation signal.
SpecCancel == InitIso /\ [][NextCancel]_vars

InitChunk == InitWith(ChunkRequests)

\* One request of many batchable jobs.
SpecChunk == InitChunk /\ [][Next]_vars

\* Two calls of runBlsWorkReq are pending, each with its own request array.
InitPair ==
  \E a, b \in RequestsPair :
    /\ workReqArr = [r \in Runs |-> IF r = 1 THEN a ELSE b]
    /\ pc = [r \in Runs |-> "entry"]
    /\ NothingRun
    /\ KmIdle

\* Two executions that interleave at their await points.
SpecPair == InitPair /\ [][Next]_vars

\* One request whose awaited calls all settle: the primitive answers every
\* call and the continuation of the await runs.
SpecLive == InitIso /\ [][Next]_vars /\ WF_vars(Next)

\* ------------------------------------------------------------- keymanager

MaxKeystores == 3

Pubkeys == {"0xa", "0xb"}

\* The value of passwords[i] when the request holds no password at i.
Undefined == "undefined"

\* A KeystoreStr: the JSON text of the keystore of `pubkey`, which `password`
\* unlocks.
KeystoreStr(pubkey, password) == [json |-> TRUE, pubkey |-> pubkey, password |-> password]

\* A KeystoreStr that is not the JSON text of a keystore.
NotAKeystore == [json |-> FALSE, pubkey |-> "", password |-> ""]

\* keystores[i] with passwords[i]: the right password, a wrong one, another
\* key, no password, no keystore.
ImportInputs ==
  { [keystoreStr |-> KeystoreStr("0xa", "pw1"), password |-> "pw1"],
    [keystoreStr |-> KeystoreStr("0xa", "pw1"), password |-> "pw2"],
    [keystoreStr |-> KeystoreStr("0xb", "pw1"), password |-> "pw1"],
    [keystoreStr |-> KeystoreStr("0xb", "pw1"), password |-> Undefined],
    [keystoreStr |-> NotAKeystore, password |-> "pw1"] }

ImportRequests == UNION {[1..n -> ImportInputs] : n \in 0..MaxKeystores}

SlashingProtections ==
  { NoSlashingProtection,
    [given |-> TRUE, valid |-> TRUE, pubkeys |-> {"0xa"}],
    [given |-> TRUE, valid |-> FALSE, pubkeys |-> {}] }

\* The signers the validator store holds when the request arrives.
ValidatorStores == {EmptyArray, "0xa" :> "local", "0xb" :> "remote"}

\* Keystore.parse
KeystoreParse(keystoreStr) ==
  IF keystoreStr.json THEN Returned(keystoreStr) ELSE Threw("Invalid keystore")

getPubkeyHexFromKeystore(keystore) == keystore.pubkey

\* validatorStore.hasVotingPubkey
hasVotingPubkey(store, pubkeyHex) == pubkeyHex \in DOMAIN store

\* validatorStore.addSigner, once it has resolved.
addSigner(store, pubkeyHex, type) ==
  IF pubkeyHex \in DOMAIN store THEN store ELSE (pubkeyHex :> type) @@ store

\* The decryption a thread of the pool does for one queued task.
decryptKeystore(keystoreStr, password) ==
  IF password = keystoreStr.password THEN Returned(keystoreStr.pubkey)
  ELSE Threw("Invalid password")

\* persistedKeysBackend.writeKeystore with lockBeforeWrite: it throws when
\* the keystore exists and is locked.
writeKeystore(disk, pubkeyHex) ==
  IF pubkeyHex \in disk THEN Threw("Keystore is locked") ELSE Returned(disk \cup {pubkeyHex})

\* validator.importInterchange
importInterchange(db, interchange) ==
  IF interchange.valid THEN Returned(db \cup interchange.pubkeys)
  ELSE Threw("Invalid interchange")

DuplicateStatus == [status |-> "duplicate"]

ImportedStatus == [status |-> "imported"]

ErrorStatus(message) == [status |-> "error", message |-> message]

\* `No password for keystores[${i}]`, i counted from 0.
NoPasswordMessage(i) == <<"No password for keystores", i - 1>>

\* The assignment taking the next free slot instead of slot i.
SetStatusPushes(st, i, status) == ArraySet(st, ArrayLength(st) + 1, status)

\* statuses[i] = status
SetStatus(st, i, status) == ArraySet(st, i, status)

QueuedTask == [state |-> "queued"]

\* What was done for keystores[i], as kept in the log.
ImportEntry(op, i) == [op |-> op, index |-> i]

AddingTask == [state |-> "addSigner"]

SettledTask(status) == [state |-> "settled", status |-> status]

\* The iteration without the check for duplicates of lines 163-167.
ImportKeystoreNoDuplicateCheck(L, store, keystoreStr, password, i) ==
  IF password = Undefined
    THEN [L EXCEPT !.statuses = SetStatus(@, i, ErrorStatus(NoPasswordMessage(i)))]
  ELSE IF KeystoreParse(keystoreStr).kind = "throw"
    THEN [L EXCEPT !.statuses = SetStatus(@, i, ErrorStatus(KeystoreParse(keystoreStr).error))]
  ELSE [L EXCEPT !.tasks = ArraySet(@, i, QueuedTask)]

\* Lines 153-197: iteration i of the loop, on the statuses and tasks so far.
ImportKeystore(L, store, keystoreStr, password, i) ==
  IF password = Undefined
    THEN [L EXCEPT !.statuses = SetStatus(@, i, ErrorStatus(NoPasswordMessage(i)))]
  ELSE IF KeystoreParse(keystoreStr).kind = "throw"
    THEN [L EXCEPT !.statuses = SetStatus(@, i, ErrorStatus(KeystoreParse(keystoreStr).error))]
  ELSE IF hasVotingPubkey(store, getPubkeyHexFromKeystore(KeystoreParse(keystoreStr).value))
    THEN [L EXCEPT !.statuses = SetStatus(@, i, DuplicateStatus)]
  ELSE [L EXCEPT !.tasks = ArraySet(@, i, QueuedTask)]

RECURSIVE ImportLoop(_, _, _, _, _)
\* Lines 152-198: the loop from i on.
ImportLoop(L, store, ks, pws, i) ==
  IF i > Len(ks) THEN L
  ELSE ImportLoop(ImportKeystore(L, store, ks[i], pws[i], i), store, ks, pws, i + 1)

\* A request arrives: any keystores and passwords, with or without slashing
\* protection data, at a validator holding any of the stores.
InitKm ==
  /\ pc = [r \in Runs |-> "idle"]
  /\ workReqArr = [r \in Runs |-> <<>>]
  /\ NothingRun
  /\ kmPc = "entry"
  /\ \E req \in ImportRequests :
       /\ keystores = [i \in DOMAIN req |-> req[i].keystoreStr]
       /\ passwords = [i \in DOMAIN req |-> req[i].password]
  /\ slashingProtection \in SlashingProtections
  /\ signers \in ValidatorStores
  /\ persistedKeys = {p \in DOMAIN signers : signers[p] = "local"}
  /\ slashingDb = {}
  /\ statuses = EmptyArray
  /\ decryptTasks = EmptyArray
  /\ settled = <<>>
  /\ kmRet = [returned |-> FALSE]
  /\ kmLog = <<>>
  /\ DelIdle
  /\ PropIdle

\* Lines 139-147: the slashing protection data, when sent, is imported
\* first; a rejection of importInterchange rejects importKeystores.
ImportInterchange ==
  /\ kmPc = "entry"
  /\ LET out == IF slashingProtection.given
                  THEN importInterchange(slashingDb, slashingProtection)
                  ELSE Returned(slashingDb)
     IN /\ slashingDb' = IF out.kind = "ok" THEN out.value ELSE slashingDb
        /\ kmPc' = IF out.kind = "ok" THEN "loop" ELSE "rejected"
  /\ UNCHANGED <<keystores, passwords, slashingProtection, signers, persistedKeys,
                 statuses, decryptTasks, settled, kmRet, kmLog, delVars, propVars,
                 blsVars>>

\* Lines 149-200: the loop over the keystores, which runs without an await,
\* up to the await of decryptKeystores.completed().
QueueKeystores ==
  /\ kmPc = "loop"
  /\ LET L == ImportLoop([statuses |-> EmptyArray, tasks |-> EmptyArray],
                         signers, keystores, passwords, 1)
     IN /\ statuses' = L.statuses
        /\ decryptTasks' = L.tasks
  /\ kmPc' = "completed"
  /\ UNCHANGED <<keystores, passwords, slashingProtection, signers, persistedKeys,
                 slashingDb, settled, kmRet, kmLog, delVars, propVars,
                 blsVars>>

\* The pool has decrypted, or failed to decrypt, the keystore of task i and
\* calls back: onError (line 192) on a failure, else onDecrypted (lines
\* 172-187) up to its await of addSigner; a throw of writeKeystore rejects
\* onDecrypted, which the pool hands to onError.
DecryptDone(i) ==
  /\ kmPc = "completed"
  /\ i \in DOMAIN decryptTasks
  /\ decryptTasks[i] = QueuedTask
  /\ LET secret == decryptKeystore(keystores[i], passwords[i])
         written == writeKeystore(persistedKeys, keystores[i].pubkey)
         e == IF secret.kind = "throw" THEN secret ELSE written
     IN IF e.kind = "throw"
          THEN /\ statuses' = SetStatus(statuses, i, ErrorStatus(e.error))
               /\ decryptTasks' = ArraySet(decryptTasks, i, SettledTask(ErrorStatus(e.error)))
               /\ settled' = Append(settled, i)
               /\ kmLog' = Append(kmLog, ImportEntry("decryptKeystore", i))
               /\ UNCHANGED persistedKeys
          ELSE /\ persistedKeys' = written.value
               /\ decryptTasks' = ArraySet(decryptTasks, i, AddingTask)
               /\ kmLog' = kmLog \o <<ImportEntry("decryptKeystore", i),
                                       ImportEntry("writeKeystore", i)>>
               /\ UNCHANGED <<statuses, settled>>
  /\ UNCHANGED <<kmPc, keystores, passwords, slashingProtection, signers, slashingDb,
                 kmRet, delVars, propVars, blsVars>>

\* Lines 187-189: addSigner of task i resolves and the status is set; or it
\* rejects, which rejects onDecrypted and goes to onError (line 192).
AddSignerDone(i) ==
  /\ kmPc = "completed"
  /\ i \in DOMAIN decryptTasks
  /\ decryptTasks[i] = AddingTask
  /\ \E resolved \in BOOLEAN :
       LET status == IF resolved THEN ImportedStatus ELSE ErrorStatus("addSigner rejected")
       IN /\ signers' = IF resolved THEN addSigner(signers, keystores[i].pubkey, "local")
                        ELSE signers
          /\ statuses' = SetStatus(statuses, i, status)
          /\ decryptTasks' = ArraySet(decryptTasks, i, SettledTask(status))
          /\ kmLog' = IF resolved THEN Append(kmLog, ImportEntry("addSigner", i))
                      ELSE kmLog
  /\ settled' = Append(settled, i)
  /\ UNCHANGED <<kmPc, keystores, passwords, slashingProtection, persistedKeys,
                 slashingDb, kmRet, delVars, propVars, blsVars>>

\* Lines 200-202: every queued task has settled and its callback has run;
\* completed() resolves and the statuses are returned.
ReturnStatuses ==
  /\ kmPc = "completed"
  /\ \A i \in DOMAIN decryptTasks : decryptTasks[i].state = "settled"
  /\ kmRet' = [returned |-> TRUE, data |-> statuses]
  /\ kmPc' = "done"
  /\ UNCHANGED <<keystores, passwords, slashingProtection, signers, persistedKeys,
                 slashingDb, statuses, decryptTasks, settled, kmLog, delVars, propVars,
                 blsVars>>

NextKm ==
  \/ ImportInterchange
  \/ QueueKeystores
  \/ \E i \in 1..MaxKeystores : DecryptDone(i)
  \/ \E i \in 1..MaxKeystores : AddSignerDone(i)
  \/ ReturnStatuses

\* One call of importKeystores.
SpecKm == InitKm /\ [][NextKm]_vars

\* ------------------------------------------------- deleteKeys, deleteRemoteKeys

MaxPubkeys == 3

\* A string that is not the hex of a pubkey.
NotAPubkey == "0xzz"

\* pubkeys: any list of known pubkeys and strings that are no pubkey.
DeleteRequests == UNION {[1..n -> Pubkeys \cup {NotAPubkey}] : n \in 0..MaxPubkeys}

\* Any signers, local or remote, for any of the pubkeys.
SignerStores == UNION {[S -> {"local", "remote"}] : S \in SUBSET Pubkeys}

isValidatePubkeyHex(pubkeyHex) == pubkeyHex \in Pubkeys

\* validatorStore.getSigner(pubkeyHex)?.type
getSigner(store, pubkeyHex) ==
  IF pubkeyHex \in DOMAIN store THEN store[pubkeyHex] ELSE "none"

\* The store after validatorStore.removeSigner, which returns whether the
\* signer was there.
removeSigner(store, pubkeyHex) == [q \in DOMAIN store \ {pubkeyHex} |-> store[q]]

LogEntry(op, pubkeyHex) == [op |-> op, pubkey |-> pubkeyHex]

\* The test of line 240 taking any signer for a local one.
IsLocalAnySigner(store, pubkeyHex) == getSigner(store, pubkeyHex) # "none"

\* Line 240: signer && signer.type === SignerType.Local
IsLocal(store, pubkeyHex) == getSigner(store, pubkeyHex) = "local"

\* Line 372: signer && signer.type === SignerType.Remote
IsRemote(store, pubkeyHex) == getSigner(store, pubkeyHex) = "remote"

\* Lines 242-248: the signer leaves the store, then its duties are removed.
RemoveFromMemory(L, pubkeyHex, i) ==
  [L EXCEPT !.deletedKey = ArraySet(@, i, pubkeyHex \in DOMAIN L.signers),
            !.signers = removeSigner(@, pubkeyHex),
            !.duties = @ \ {pubkeyHex},
            !.log = @ \o <<LogEntry("removeSigner", pubkeyHex),
                           LogEntry("removeDutiesForKey", pubkeyHex)>>]

\* Lines 253-258: persistedKeysBackend.deleteKeystore, which returns whether
\* it deleted something, or throws.
DeleteFromDisk(L, pubkeyHex, i, diskThrows) ==
  IF diskThrows
    THEN [L EXCEPT !.statuses = SetStatus(@, i, ErrorStatus("deleteKeystore failed")),
                   !.log = Append(@, LogEntry("deleteKeystore", pubkeyHex))]
  ELSE [L EXCEPT !.deletedKey = IF pubkeyHex \in L.persistedKeys
                                  THEN ArraySet(@, i, TRUE) ELSE @,
                 !.persistedKeys = @ \ {pubkeyHex},
                 !.log = Append(@, LogEntry("deleteKeystore", pubkeyHex))]

\* The iteration deleting from disk before it removes the signer.
DeleteKeyDiskFirst(L, pubkeyHex, i, diskThrows) ==
  IF ~isValidatePubkeyHex(pubkeyHex)
    THEN [L EXCEPT !.statuses = SetStatus(@, i, ErrorStatus(<<"Invalid pubkey", pubkeyHex>>))]
  ELSE LET M == DeleteFromDisk(L, pubkeyHex, i, diskThrows)
       IN IF IsLocal(L.signers, pubkeyHex) /\ ~diskThrows
            THEN RemoveFromMemory(M, pubkeyHex, i) ELSE M

\* Lines 231-261: iteration i of the loop of deleteKeys.
DeleteKey(L, pubkeyHex, i, diskThrows) ==
  IF ~isValidatePubkeyHex(pubkeyHex)
    THEN [L EXCEPT !.statuses = SetStatus(@, i, ErrorStatus(<<"Invalid pubkey", pubkeyHex>>))]
  ELSE DeleteFromDisk(IF IsLocal(L.signers, pubkeyHex)
                        THEN RemoveFromMemory(L, pubkeyHex, i) ELSE L,
                      pubkeyHex, i, diskThrows)

RECURSIVE DeleteLoop(_, _, _, _)
\* Lines 230-262: the loop from i on; deleteKeystore throws at the indices
\* of `throwing`.
DeleteLoop(L, keys, i, throwing) ==
  IF i > Len(keys) THEN L
  ELSE DeleteLoop(DeleteKey(L, keys[i], i, i \in throwing), keys, i + 1, throwing)

\* validator.exportInterchange: the pubkeys among those asked for that the
\* slashing protection database holds data of.
exportInterchange(db, asked) == db \cap asked

\* Lines 276-281.
RenderStatus(deleted, hasData) ==
  [status |-> IF deleted THEN "deleted"
              ELSE IF hasData THEN "not_active"
              ELSE "not_found"]

\* Lines 272-282: the status of every key the loop left without an error.
RenderStatuses(st, deleted, keys, withData) ==
  [i \in 1..Len(keys) |->
     IF i \in DOMAIN st /\ st[i].status = "error" THEN st[i]
     ELSE RenderStatus(i \in DOMAIN deleted /\ deleted[i], keys[i] \in withData)]

\* A deleteKeys or deleteRemoteKeys request arrives at a validator holding
\* any signers, any keystores on disk and any slashing protection data.
InitDel ==
  /\ pc = [r \in Runs |-> "idle"]
  /\ workReqArr = [r \in Runs |-> <<>>]
  /\ NothingRun
  /\ kmPc \in {"deleteKeys", "deleteRemoteKeys"}
  /\ pubkeys \in DeleteRequests
  /\ signers \in SignerStores
  /\ duties = DOMAIN signers
  /\ persistedKeys \in SUBSET Pubkeys
  /\ persistedRemoteKeys = {q \in DOMAIN signers : signers[q] = "remote"}
  /\ slashingDb \in SUBSET Pubkeys
  /\ keystores = <<>>
  /\ passwords = <<>>
  /\ slashingProtection = NoSlashingProtection
  /\ statuses = EmptyArray
  /\ deletedKey = EmptyArray
  /\ decryptTasks = EmptyArray
  /\ settled = <<>>
  /\ kmRet = [returned |-> FALSE]
  /\ kmLog = <<>>
  /\ PropIdle

\* Lines 227-262: the loop of deleteKeys, which runs without an await;
\* deleteKeystore may throw for any of the keys.
DeleteKeysLoop ==
  /\ kmPc = "deleteKeys"
  /\ \E throwing \in SUBSET {i \in 1..Len(pubkeys) : isValidatePubkeyHex(pubkeys[i])} :
       LET L == DeleteLoop([signers |-> signers, duties |-> duties,
                            persistedKeys |-> persistedKeys, deletedKey |-> EmptyArray,
                            statuses |-> EmptyArray, log |-> kmLog],
                           pubkeys, 1, throwing)
       IN /\ signers' = L.signers
          /\ duties' = L.duties
          /\ persistedKeys' = L.persistedKeys
          /\ deletedKey' = L.deletedKey
          /\ statuses' = L.statuses
          /\ kmLog' = L.log
  /\ kmPc' = "export"
  /\ UNCHANGED <<keystores, passwords, slashingProtection, slashingDb, decryptTasks,
                 settled, kmRet, pubkeys, persistedRemoteKeys, propVars, blsVars>>

\* Lines 264-289: the pubkeys are turned to bytes, the slashing protection
\* data of all of them is exported, the statuses are rendered and returned
\* with the whole export.  fromHexString of a string that is no hex may
\* throw, which rejects deleteKeys.
ExportInterchange ==
  /\ kmPc = "export"
  /\ \E hexThrows \in BOOLEAN :
       IF hexThrows /\ \E i \in 1..Len(pubkeys) : ~isValidatePubkeyHex(pubkeys[i])
         THEN /\ kmPc' = "rejected"
              /\ UNCHANGED <<statuses, kmRet, kmLog>>
       ELSE LET interchangeV5 ==
                  exportInterchange(slashingDb, {pubkeys[i] : i \in 1..Len(pubkeys)})
                rendered == RenderStatuses(statuses, deletedKey, pubkeys, interchangeV5)
            IN /\ statuses' = rendered
               /\ kmLog' = Append(kmLog, LogEntry("exportInterchange", ""))
               /\ kmRet' = [returned |-> TRUE, call |-> "deleteKeys",
                            data |-> [statuses |-> rendered,
                                      slashingProtection |-> interchangeV5]]
               /\ kmPc' = "done"
  /\ UNCHANGED <<keystores, passwords, slashingProtection, signers, persistedKeys,
                 slashingDb, decryptTasks, settled, delVars, propVars, blsVars>>

\* Lines 364-386: the status of one key of deleteRemoteKeys.
DeleteRemoteKey(L, pubkeyHex, i, diskThrows) ==
  IF ~isValidatePubkeyHex(pubkeyHex)
    THEN [L EXCEPT !.statuses = SetStatus(@, i, ErrorStatus(<<"Invalid pubkey", pubkeyHex>>))]
  ELSE LET deletedFromMemory == IsRemote(L.signers, pubkeyHex)
           M == IF deletedFromMemory
                  THEN [L EXCEPT !.signers = removeSigner(@, pubkeyHex),
                                 !.duties = @ \ {pubkeyHex},
                                 !.log = @ \o <<LogEntry("removeSigner", pubkeyHex),
                                                LogEntry("removeDutiesForKey", pubkeyHex)>>]
                ELSE L
           deletedFromDisk == pubkeyHex \in L.persistedRemoteKeys
       IN IF diskThrows
            THEN [M EXCEPT !.statuses = SetStatus(@, i, ErrorStatus("deleteRemoteKey failed"))]
          ELSE [M EXCEPT !.persistedRemoteKeys = @ \ {pubkeyHex},
                         !.log = Append(@, LogEntry("deleteRemoteKey", pubkeyHex)),
                         !.statuses = SetStatus(@, i,
                            [status |-> IF deletedFromMemory \/ deletedFromDisk
                                          THEN "deleted" ELSE "not_found"])]

RECURSIVE DeleteRemoteLoop(_, _, _, _)
\* Lines 363-387: pubkeys.map, from i on.
DeleteRemoteLoop(L, keys, i, throwing) ==
  IF i > Len(keys) THEN L
  ELSE DeleteRemoteLoop(DeleteRemoteKey(L, keys[i], i, i \in throwing),
                        keys, i + 1, throwing)

\* Lines 362-392: deleteRemoteKeys, which has no await.
DeleteRemoteKeys ==
  /\ kmPc = "deleteRemoteKeys"
  /\ \E throwing \in SUBSET {i \in 1..Len(pubkeys) : isValidatePubkeyHex(pubkeys[i])} :
       LET L == DeleteRemoteLoop([signers |-> signers, duties |-> duties,
                                  persistedRemoteKeys |-> persistedRemoteKeys,
                                  statuses |-> EmptyArray, log |-> kmLog],
                                 pubkeys, 1, throwing)
       IN /\ signers' = L.signers
          /\ duties' = L.duties
          /\ persistedRemoteKeys' = L.persistedRemoteKeys
          /\ statuses' = L.statuses
          /\ kmLog' = L.log
          /\ kmRet' = [returned |-> TRUE, call |-> "deleteRemoteKeys", data |-> L.statuses]
  /\ kmPc' = "done"
  /\ UNCHANGED <<keystores, passwords, slashingProtection, persistedKeys, slashingDb,
                 decryptTasks, settled, pubkeys, deletedKey, propVars, blsVars>>

NextDel == DeleteKeysLoop \/ ExportInterchange \/ DeleteRemoteKeys

\* One call of deleteKeys or of deleteRemoteKeys.
SpecDel == InitDel /\ [][NextDel]_vars

\* ------------------------------------------------------- proposer config

MaxProposerOps == 3

\* What setFeeRecipient, setGraffiti, setGasLimit and setBuilderBoostFactor
\* set, each with its delete* and its list* or get*.
ProposerFields == {"feeRecipient", "graffiti", "gasLimit", "builderBoostFactor"}

\* A value that is not set.
Unset == "unset"

\* The values of a request: a good one and one parseFeeRecipient rejects.
ProposerValues == {"0x01", "bad"}

\* The proposer config with nothing set, and one with everything set.
ProposerConfigs ==
  { [q \in Pubkeys |-> [f \in ProposerFields |-> Unset]],
    [q \in Pubkeys |-> [f \in ProposerFields |-> "0x00"]] }

\* Lines 40-44 without the throw.
checkIfProposerWriteEnabledNever(disabled) == Returned(TRUE)

\* Lines 40-44.
checkIfProposerWriteEnabled(disabled) ==
  IF disabled = TRUE THEN Threw("proposerSettingsFile option activated")
  ELSE Returned(TRUE)

\* parseFeeRecipient, which throws on what is no address; the other values
\* are stored as sent.
ParseValue(field, value) ==
  IF field = "feeRecipient" /\ value = "bad" THEN Threw("Invalid feeRecipient")
  ELSE Returned(value)

\* A call as the log keeps it: what it does and to which field.
ProposerEntry(kind, field) == [kind |-> kind, field |-> field]

Thrown(e) == [returned |-> FALSE, error |-> e]

\* The API of a validator with or without proposerConfigWriteDisabled,
\* holding some proposer config, the one on disk being the same.
InitProp ==
  /\ pc = [r \in Runs |-> "idle"]
  /\ workReqArr = [r \in Runs |-> <<>>]
  /\ NothingRun
  /\ kmPc = "proposer"
  /\ proposerConfigWriteDisabled \in BOOLEAN
  /\ proposerConfig \in ProposerConfigs
  /\ persistedProposerConfig = proposerConfig
  /\ keystores = <<>>
  /\ passwords = <<>>
  /\ slashingProtection = NoSlashingProtection
  /\ signers = EmptyArray
  /\ persistedKeys = {}
  /\ slashingDb = {}
  /\ statuses = EmptyArray
  /\ decryptTasks = EmptyArray
  /\ settled = <<>>
  /\ kmRet = [returned |-> FALSE]
  /\ kmLog = <<>>
  /\ DelIdle

\* What one proposer call changes: the two configs, what it resolved with
\* and the log.
ProposerCall(kind, field, pubkeyHex, store, disk, out) ==
  /\ kmPc = "proposer"
  /\ Len(kmLog) < MaxProposerOps
  /\ kmLog' = Append(kmLog, ProposerEntry(kind, field))
  /\ proposerConfig' = store
  /\ persistedProposerConfig' = disk
  /\ kmRet' = out
  /\ UNCHANGED <<kmPc, keystores, passwords, slashingProtection, signers, persistedKeys,
                 slashingDb, statuses, decryptTasks, settled, delVars,
                 proposerConfigWriteDisabled, blsVars>>

\* Lines 50-55, 68-73, 87-92, 398-407: setFeeRecipient, setGraffiti,
\* setGasLimit, setBuilderBoostFactor.
SetProposerField(field) ==
  \E pubkeyHex \in Pubkeys, value \in ProposerValues :
    LET check == checkIfProposerWriteEnabled(proposerConfigWriteDisabled)
        parsed == ParseValue(field, value)
        store == [proposerConfig EXCEPT ![pubkeyHex][field] = parsed.value]
    IN IF check.kind = "throw"
         THEN ProposerCall("set", field, pubkeyHex, proposerConfig,
                           persistedProposerConfig, Thrown(check.error))
       ELSE IF parsed.kind = "throw"
         THEN ProposerCall("set", field, pubkeyHex, proposerConfig,
                           persistedProposerConfig, Thrown(parsed.error))
       ELSE ProposerCall("set", field, pubkeyHex, store,
                         [persistedProposerConfig EXCEPT ![pubkeyHex] = store[pubkeyHex]],
                         [returned |-> TRUE, status |-> 202])

\* Lines 57-62, 75-80, 94-99, 409-414: deleteFeeRecipient, deleteGraffiti,
\* deleteGasLimit, deleteBuilderBoostFactor.
DeleteProposerField(field) ==
  \E pubkeyHex \in Pubkeys :
    LET check == checkIfProposerWriteEnabled(proposerConfigWriteDisabled)
        store == [proposerConfig EXCEPT ![pubkeyHex][field] = Unset]
    IN IF check.kind = "throw"
         THEN ProposerCall("delete", field, pubkeyHex, proposerConfig,
                           persistedProposerConfig, Thrown(check.error))
       ELSE ProposerCall("delete", field, pubkeyHex, store,
                         [persistedProposerConfig EXCEPT ![pubkeyHex] = store[pubkeyHex]],
                         [returned |-> TRUE, status |-> 204])

\* Lines 46-48, 64-66, 82-85, 394-397: listFeeRecipient, listGraffiti,
\* getGasLimit, getBuilderBoostFactor.
GetProposerField(field) ==
  \E pubkeyHex \in Pubkeys :
    LET value == proposerConfig[pubkeyHex][field]
    IN /\ value \in {Unset, "0x00"} \cup ProposerValues
       /\ ProposerCall("get", field, pubkeyHex, proposerConfig, persistedProposerConfig,
                       [returned |-> TRUE, data |-> [pubkey |-> pubkeyHex, value |-> value]])

NextProp ==
  \/ \E field \in ProposerFields : SetProposerField(field)
  \/ \E field \in ProposerFields : DeleteProposerField(field)
  \/ \E field \in ProposerFields : GetProposerField(field)

\* Some calls of the proposer config operations, one after the other.
SpecProp == InitProp /\ [][NextProp]_vars

\* --------------------------------------------------------------- properties

Done(r) == pc[r] = "done"

\* The indices of the request array of run r.
Indices(r) == 1..Len(workReqArr[r])

\* Entry i of the array is written and holds v.
HasEntry(arr, i, v) == i \in DOMAIN arr /\ arr[i] = v

\* Entry i of the array is written and its code is `code`.
HasCode(arr, i, code) == i \in DOMAIN arr /\ arr[i].code = code

OutIsTrue(out) == out.kind = "ok" /\ out.value

\* The positions in the call record of run r of its calls of one phase.
CallsOf(r, phase) == {k \in 1..Len(calls[r]) : calls[r][k].phase = phase}

\* The batch calls of run r that returned false or threw.
FailedBatchCalls(r) == {k \in CallsOf(r, "batch") : ~OutIsTrue(calls[r][k].out)}

\* The batch calls of run r that returned true.
VerifiedBatchCalls(r) == {k \in CallsOf(r, "batch") : OutIsTrue(calls[r][k].out)}

\* The individual calls of run r for job i.
SingleCallsFor(r, i) == {k \in CallsOf(r, "single") : calls[r][k].jobs = <<i>>}

\* The positions in the write record of run r of the assignments to entry i.
WritesTo(r, i) == {k \in 1..Len(writes[r]) : writes[r][k].idx = i}

\* The entry of a job whose sets are verified by a call of their own.
Alone(sets) ==
  LET out == asyncVerifySets(sets)
  IN IF out.kind = "ok" THEN SuccessResult(out.value) ELSE ErrorResult(out.error)

\* The set verifies when the primitive is asked about it alone.
Verifies(set) == asyncVerifySets(<<set>>) = Returned(TRUE)

\* The step appends one call to the record of run r: c is that call.
MakesCall(r, c) == calls'[r] = Append(calls[r], c)

\* C1: the results array a run returns has as many entries as its request
\* array, with a defined entry (a success or an error) at every index.
C1_LengthPreserved ==
  \A r \in Runs :
    Done(r) =>
      /\ ret[r].returned
      /\ ArrayLength(ret[r].results) = Len(workReqArr[r])
      /\ DOMAIN ret[r].results = Indices(r)
      /\ \A i \in Indices(r) : ret[r].results[i].code \in {"success", "error"}

\* A full-size request with batchable and non-batchable jobs has returned
\* after a failed batch, with a success entry and an error entry.
C1_Witness ==
  /\ Done(1)
  /\ Len(workReqArr[1]) = MaxJobs
  /\ \E i, j \in Indices(1) :
       workReqArr[1][i].opts.batchable /\ ~workReqArr[1][j].opts.batchable
  /\ FailedBatchCalls(1) # {}
  /\ \E i, j \in Indices(1) :
       HasCode(ret[1].results, i, "success") /\ HasCode(ret[1].results, j, "error")

\* C2 (state part): an entry is written at most once, it holds what that one
\* assignment wrote, a batch assignment belongs to a batch call that returned
\* true and an individual one to the job's own call, and at return every
\* entry has been written exactly once.
C2_WrittenOnce ==
  \A r \in Runs : \A i \in Indices(r) :
    /\ Cardinality(WritesTo(r, i)) <= 1
    /\ (i \in DOMAIN results[r]) <=> (WritesTo(r, i) # {})
    /\ \A k \in WritesTo(r, i) :
         /\ HasEntry(results[r], i, writes[r][k].value)
         /\ writes[r][k].by = "batch" =>
              /\ SingleCallsFor(r, i) = {}
              /\ \E c \in VerifiedBatchCalls(r) :
                   \E j \in 1..Len(calls[r][c].jobs) : calls[r][c].jobs[j] = i
         /\ writes[r][k].by = "single" => Cardinality(SingleCallsFor(r, i)) = 1
    /\ Done(r) => Cardinality(WritesTo(r, i)) = 1

\* C2 (step part): no step changes or removes an entry that is written.
C2_NoOverwrite ==
  \A r \in Runs : \A i \in DOMAIN results[r] :
    HasEntry(results'[r], i, results[r][i])

\* C2: during one execution every result index is written exactly once,
\* either by the successful batch of its chunk or by its individual
\* verification, never by both, and it is never overwritten afterwards.
C2_ExactlyOnce == []C2_WrittenOnce /\ [][C2_NoOverwrite]_vars

\* A run has returned with one entry written by the batch phase and another
\* by the individual phase, after a chunk was demoted.
C2_Witness ==
  /\ Done(1)
  /\ FailedBatchCalls(1) # {}
  /\ \E k, m \in 1..Len(writes[1]) :
       writes[1][k].by = "batch" /\ writes[1][m].by = "single"

\* C3: when no call of the primitive threw, the entry of job i is
\* Success{true} exactly when every set of job i verifies on its own.
C3_Conjunction ==
  \A r \in Runs :
    (Done(r) /\ \A k \in 1..Len(calls[r]) : calls[r][k].out.kind = "ok") =>
      \A i \in Indices(r) :
        HasEntry(ret[r].results, i, SuccessResult(TRUE))
          <=> \A k \in 1..Len(workReqArr[r][i].sets) : Verifies(workReqArr[r][i].sets[k])

\* No call threw, a chunk holding a job that verifies and a job that does
\* not failed its batch, and a non-batchable job does not verify.
C3_Witness ==
  /\ Done(1)
  /\ \A k \in 1..Len(calls[1]) : calls[1][k].out.kind = "ok"
  /\ \E c \in FailedBatchCalls(1) : \E a, b \in 1..Len(calls[1][c].jobs) :
       /\ HasEntry(ret[1].results, calls[1][c].jobs[a], SuccessResult(TRUE))
       /\ HasEntry(ret[1].results, calls[1][c].jobs[b], SuccessResult(FALSE))
  /\ \E i \in Indices(1) :
       /\ ~workReqArr[1][i].opts.batchable
       /\ HasEntry(ret[1].results, i, SuccessResult(FALSE))

\* C4: every job of a chunk whose batch call returned false or threw ends
\* with the entry that a call of the primitive on its sets alone gives.
C4_FallbackEquivalence ==
  \A r \in Runs :
    Done(r) =>
      \A c \in FailedBatchCalls(r) : \A j \in 1..Len(calls[r][c].jobs) :
        LET i == calls[r][c].jobs[j]
        IN HasEntry(ret[r].results, i, Alone(workReqArr[r][i].sets))

\* One chunk failed by returning false and another by throwing, and a job
\* of a failed chunk ended Success{true}.
C4_Witness ==
  /\ Done(1)
  /\ \E c, d \in FailedBatchCalls(1) :
       /\ calls[1][c].out.kind = "ok"
       /\ calls[1][d].out.kind = "throw"
  /\ \E c \in FailedBatchCalls(1) : \E j \in 1..Len(calls[1][c].jobs) :
       HasEntry(ret[1].results, calls[1][c].jobs[j], SuccessResult(TRUE))

\* The requests of runs 1 and 2 differ at most in the sets of jobs that are
\* non-batchable in both.
DifferInNonBatchableSetsOnly ==
  /\ Len(workReqArr[1]) = Len(workReqArr[2])
  /\ \A i \in Indices(1) :
       \/ workReqArr[1][i] = workReqArr[2][i]
       \/ /\ ~workReqArr[1][i].opts.batchable
          /\ ~workReqArr[2][i].opts.batchable

\* C5: two runs whose requests differ only in the sets of non-batchable jobs
\* return the same entry for every job they share and the same batchRetries
\* and batchSigsSuccess.
C5_NonBatchableIsolation ==
  (Done(1) /\ Done(2) /\ DifferInNonBatchableSetsOnly) =>
    /\ ret[1].batchRetries = ret[2].batchRetries
    /\ ret[1].batchSigsSuccess = ret[2].batchSigsSuccess
    /\ \A i \in Indices(1) :
         workReqArr[1][i] = workReqArr[2][i] =>
           /\ (i \in DOMAIN ret[1].results) <=> (i \in DOMAIN ret[2].results)
           /\ i \in DOMAIN ret[1].results =>
                HasEntry(ret[2].results, i, ret[1].results[i])

\* Both runs returned; the changed job verified in the first and threw in
\* the second, next to a chunk that failed its batch in both.
C5_Witness ==
  /\ Done(1)
  /\ Done(2)
  /\ Len(workReqArr[1]) = MaxJobs
  /\ ret[1].batchRetries >= 1
  /\ \E j \in Indices(1) :
       /\ HasEntry(ret[1].results, j, SuccessResult(TRUE))
       /\ HasCode(ret[2].results, j, "error")

\* C6: a job with an invalid set, for which the primitive returns false
\* without throwing, is reported Success{false}, batchable or not.
C6_InvalidIsNotError ==
  \A r \in Runs :
    Done(r) =>
      \A i \in Indices(r) :
        (/\ \E k \in 1..Len(workReqArr[r][i].sets) : workReqArr[r][i].sets[k] = "invalid"
         /\ asyncVerifySets(workReqArr[r][i].sets) = Returned(FALSE))
          => HasEntry(ret[r].results, i, SuccessResult(FALSE))

\* A batchable job and a non-batchable job each hold an invalid set and
\* each ended Success{false}.
C6_Witness ==
  /\ Done(1)
  /\ \E i, j \in Indices(1) :
       /\ workReqArr[1][i].opts.batchable
       /\ ~workReqArr[1][j].opts.batchable
       /\ \A n \in {i, j} :
            /\ \E k \in 1..Len(workReqArr[1][n].sets) : workReqArr[1][n].sets[k] = "invalid"
            /\ HasEntry(ret[1].results, n, SuccessResult(FALSE))

\* C7 (state part): an error entry is the error thrown by the individual
\* call of that very job.
C7_ErrorOnlyFromOwnCall ==
  \A r \in Runs : \A i \in DOMAIN results[r] :
    results[r][i].code = "error" =>
      \E k \in SingleCallsFor(r, i) :
        /\ calls[r][k].out.kind = "throw"
        /\ results[r][i] = ErrorResult(calls[r][k].out.error)

\* C7 (step part): a batch call that returns false or throws writes no
\* entry, adds one to batchRetries, leaves batchSigsSuccess alone and appends
\* the jobs of its chunk to nonBatchableSets.
C7_FailedBatchDemotes ==
  \A r \in Runs :
    \A out \in {Returned(FALSE), Threw("InvalidInput"), Threw("PrimitiveFault")} :
      (/\ pc[r] = "batch"
       /\ MakesCall(r, Call("batch", batchableChunks[r][chunkIdx[r]],
                            AllSets(batchableChunks[r][chunkIdx[r]]), out)))
        => /\ results'[r] = results[r]
           /\ batchRetries'[r] = batchRetries[r] + 1
           /\ batchSigsSuccess'[r] = batchSigsSuccess[r]
           /\ nonBatchableSets'[r] =
                nonBatchableSets[r] \o batchableChunks[r][chunkIdx[r]]

\* C7: a throw or a false from a batch attempt is never surfaced in results:
\* it is handled like a false batch, and a job gets an Error entry only if
\* its own individual verification throws.
C7_BatchFailureRecovered == []C7_ErrorOnlyFromOwnCall /\ [][C7_FailedBatchDemotes]_vars

\* A batch call threw, and every job of that chunk ended with a Success entry.
C7_Witness ==
  /\ Done(1)
  /\ \E c \in FailedBatchCalls(1) :
       /\ calls[1][c].out.kind = "throw"
       /\ Len(calls[1][c].jobs) >= 2
       /\ \A j \in 1..Len(calls[1][c].jobs) :
            HasCode(ret[1].results, calls[1][c].jobs[j], "success")

\* C8 (state part): the entry of a job whose individual call threw is the
\* Error carrying that failure; at return every item of nonBatchableSets has
\* had its call and the result is complete.
C8_ThrowIsPerJob ==
  \A r \in Runs :
    /\ \A k \in CallsOf(r, "single") :
         calls[r][k].out.kind = "throw" =>
           HasEntry(results[r], calls[r][k].jobs[1], ErrorResult(calls[r][k].out.error))
    /\ Done(r) =>
         /\ Cardinality(CallsOf(r, "single")) = Len(nonBatchableSets[r])
         /\ \A n \in 1..Len(nonBatchableSets[r]) :
              SingleCallsFor(r, nonBatchableSets[r][n].idx) # {}
         /\ DOMAIN ret[r].results = Indices(r)

\* C8 (step part): an individual call that throws changes the entry of its
\* own job only, and the loop goes on to the next item.
C8_ThrowTouchesOwnEntry ==
  \A r \in Runs :
    \A e \in {"InvalidInput", "PrimitiveFault"} :
      (/\ pc[r] = "single"
       /\ nbIdx[r] <= Len(nonBatchableSets[r])
       /\ MakesCall(r, Call("single", <<nonBatchableSets[r][nbIdx[r]]>>,
                            nonBatchableSets[r][nbIdx[r]].sets, Threw(e))))
        => /\ \A i \in Indices(r) \ {nonBatchableSets[r][nbIdx[r]].idx} :
                /\ (i \in DOMAIN results'[r]) <=> (i \in DOMAIN results[r])
                /\ i \in DOMAIN results[r] => HasEntry(results'[r], i, results[r][i])
           /\ pc'[r] = "single"
           /\ nbIdx'[r] = nbIdx[r] + 1
           /\ batchRetries'[r] = batchRetries[r]
           /\ batchSigsSuccess'[r] = batchSigsSuccess[r]

\* C8: when the primitive throws during the individual verification of job
\* i, results[i] is an Error carrying that failure, every later job is still
\* verified, the request returns a complete result and no other entry changes.
C8_IndividualThrowContained == []C8_ThrowIsPerJob /\ [][C8_ThrowTouchesOwnEntry]_vars

\* An individual call threw and a later individual call returned, and the
\* run returned both entries.
C8_Witness ==
  /\ Done(1)
  /\ \E k, m \in CallsOf(1, "single") :
       /\ k < m
       /\ calls[1][k].out.kind = "throw"
       /\ calls[1][m].out.kind = "ok"
       /\ HasCode(ret[1].results, calls[1][k].jobs[1], "error")
       /\ HasCode(ret[1].results, calls[1][m].jobs[1], "success")

\* The chunks of run r that the primitive does not answer true for.
FailingChunks(r) ==
  {k \in 1..Len(batchableChunks[r]) :
     asyncVerifySets(AllSets(batchableChunks[r][k])) # Returned(TRUE)}

\* C9: batchRetries is the number of batch calls made so far that returned
\* false or threw, and the value returned is the number of chunks of the
\* request that the primitive does not answer true for.
C9_RetriesCountFailedChunks ==
  \A r \in Runs :
    /\ pc[r] \in {"batch", "single", "done"} =>
         batchRetries[r] = Cardinality(FailedBatchCalls(r))
    /\ Done(r) =>
         /\ Cardinality(CallsOf(r, "batch")) = Len(batchableChunks[r])
         /\ ret[r].batchRetries = Cardinality(FailingChunks(r))

\* Of three chunks one verified, one returned false and one threw.
C9_Witness ==
  /\ Done(1)
  /\ Len(batchableChunks[1]) = 3
  /\ VerifiedBatchCalls(1) # {}
  /\ \E c, d \in FailedBatchCalls(1) :
       calls[1][c].out.kind = "ok" /\ calls[1][d].out.kind = "throw"
  /\ ret[1].batchRetries = 2

RECURSIVE SetsVerifiedInBatch(_, _)
\* The number of sets in the first n calls of run r that are batch calls
\* answered true.
SetsVerifiedInBatch(r, n) ==
  IF n = 0 THEN 0
  ELSE SetsVerifiedInBatch(r, n - 1)
       + (IF calls[r][n].phase = "batch" /\ OutIsTrue(calls[r][n].out)
            THEN Len(calls[r][n].sets) ELSE 0)

\* C10: batchSigsSuccess is the number of sets of the batch calls that
\* returned true; the sets of a chunk whose batch call failed are not counted.
C10_SigsSuccessCountsVerifiedSets ==
  \A r \in Runs :
    /\ pc[r] \in {"batch", "single", "done"} =>
         batchSigsSuccess[r] = SetsVerifiedInBatch(r, Len(calls[r]))
    /\ Done(r) => ret[r].batchSigsSuccess = SetsVerifiedInBatch(r, Len(calls[r]))

\* A chunk of sixteen sets verified, a second chunk failed its batch and all
\* its jobs got a Success entry from their own calls; sixteen sets are counted.
C10_Witness ==
  /\ Done(1)
  /\ ret[1].batchSigsSuccess = BATCHABLE_MIN_PER_CHUNK
  /\ \E c \in VerifiedBatchCalls(1) : Len(calls[1][c].jobs) = 1
  /\ \E c \in FailedBatchCalls(1) :
       /\ Len(calls[1][c].jobs) >= 2
       /\ \A j \in 1..Len(calls[1][c].jobs) :
            HasCode(ret[1].results, calls[1][c].jobs[j], "success")

\* The results and the two counters of a BlsWorkResult, the timestamps left out.
Outcome(res) ==
  [results |-> res.results,
   batchRetries |-> res.batchRetries,
   batchSigsSuccess |-> res.batchSigsSuccess]

\* C11: two executions on the same request array, the primitive answering
\* the same way for the same sets, return equal results arrays and equal
\* batchRetries and batchSigsSuccess.
C11_Deterministic ==
  (Done(1) /\ Done(2) /\ workReqArr[1] = workReqArr[2]) =>
    /\ ret[1].returned /\ ret[2].returned
    /\ Outcome(ret[1]) = Outcome(ret[2])

\* Both executions of one two-chunk request returned, with a verified chunk,
\* a failed chunk and entries written.
C11_Witness ==
  /\ Done(1)
  /\ Done(2)
  /\ workReqArr[1] = workReqArr[2]
  /\ Len(workReqArr[1]) = MaxPairJobs
  /\ ret[1].batchRetries >= 1
  /\ ret[1].batchSigsSuccess >= 1
  /\ DOMAIN ret[2].results = Indices(2)

RECURSIVE Concat(_)
\* The lists of a list of lists, one after the other.
Concat(lists) == IF lists = <<>> THEN <<>> ELSE Head(lists) \o Concat(Tail(lists))

\* The number of sets of the jobs of a list of items.
SetCount(items) == Len(AllSets(items))

\* The run has split its request and made its chunks.
Chunked(r) == pc[r] \in {"batch", "single", "done"}

\* The k-th call of run r is the batch call of its k-th chunk.
BatchCallOfChunk(r, k) ==
  /\ k <= Len(calls[r])
  /\ calls[r][k].phase = "batch"
  /\ calls[r][k].jobs = Idxs(batchableChunks[r][k])
  /\ calls[r][k].sets = AllSets(batchableChunks[r][k])

\* C12: the chunks handed to the batch phase, one after the other, are the
\* list of the batchable jobs in input order (no job split, dropped or
\* repeated), no chunk is empty, and every chunk but the last has at least 16
\* sets.
C12_ChunkWeightLaw ==
  \A r \in Runs :
    Chunked(r) =>
      /\ batchableSets[r] = SplitFrom(workReqArr[r], 1, TRUE)
      /\ \A k \in 1..(Len(batchableSets[r]) - 1) :
           batchableSets[r][k].idx < batchableSets[r][k + 1].idx
      /\ Concat(batchableChunks[r]) = batchableSets[r]
      /\ \A k \in 1..Len(batchableChunks[r]) : batchableChunks[r][k] # <<>>
      /\ \A k \in 1..(Len(batchableChunks[r]) - 1) :
           SetCount(batchableChunks[r][k]) >= 16
      /\ Done(r) => \A k \in 1..Len(batchableChunks[r]) : BatchCallOfChunk(r, k)

\* A request of more than three jobs with sets of two sizes was cut in at
\* least three chunks, the last with fewer than 16 sets, and has returned.
C12_Witness ==
  /\ Done(1)
  /\ Len(workReqArr[1]) > 3
  /\ Len(batchableChunks[1]) >= 3
  /\ SetCount(batchableChunks[1][Len(batchableChunks[1])]) < 16
  /\ \E k \in 1..Len(batchableChunks[1]) : Len(batchableChunks[1][k]) >= 2
  /\ \E i, j \in Indices(1) : Len(workReqArr[1][i].sets) # Len(workReqArr[1][j].sets)

\* The request is 17 batchable jobs of one set each.
SeventeenSingles(r) ==
  /\ Len(workReqArr[r]) = 17
  /\ \A i \in Indices(r) :
       workReqArr[r][i].opts.batchable /\ Len(workReqArr[r][i].sets) = 1

RECURSIVE BatchPhase(_, _)
\* The locals after the batch loop has gone through the chunks, L being the
\* locals before it.
BatchPhase(L, chunks) ==
  IF chunks = <<>> THEN L
  ELSE LET chunk == Head(chunks)
           out == asyncVerifySets(AllSets(chunk))
       IN BatchPhase(IF out.kind = "throw" THEN BatchThrew(L, chunk, out.error)
                     ELSE IF out.value THEN BatchVerified(L, chunk, out.value)
                     ELSE BatchFailed(L, chunk),
                     Tail(chunks))

RECURSIVE IndividualPhase(_, _)
\* The locals after the individual loop has gone through nonBatchableSets
\* from item n on.
IndividualPhase(L, n) ==
  IF n > Len(L.nonBatchableSets) THEN L
  ELSE LET item == L.nonBatchableSets[n]
           out == asyncVerifySets(item.sets)
       IN IndividualPhase(IF out.kind = "throw" THEN IndividualThrew(L, item, out.error)
                          ELSE IndividualVerified(L, item, out.value),
                          n + 1)

\* What runBlsWorkReq returns for a request when nothing else runs and no
\* signal fires: the two loops, one after the other, on fresh locals.
RunAlone(req) ==
  Outcome(IndividualPhase(
            BatchPhase([results |-> EmptyArray, writes |-> <<>>, batchRetries |-> 0,
                        batchSigsSuccess |-> 0,
                        nonBatchableSets |-> SplitFrom(req, 1, FALSE),
                        uncaught |-> FALSE],
                       ChunksOf(SplitFrom(req, 1, TRUE))),
            1))

C15_EmptyJobRejected ==
  \A r \in Runs :
    Done(r) =>
      \A i \in Indices(r) :
        workReqArr[r][i].sets = <<>> => HasCode(ret[r].results, i, "error")

RECURSIVE JobsOfCalls(_, _, _)
\* The jobs of the calls among the first n of run r that are of the given
\* phase and, when onlyFailed, did not return true; in call order.
JobsOfCalls(r, n, phase) ==
  IF n = 0 THEN <<>>
  ELSE JobsOfCalls(r, n - 1, phase)
       \o (IF /\ calls[r][n].phase = IF phase = "failed" THEN "batch" ELSE phase
              /\ phase = "failed" => ~OutIsTrue(calls[r][n].out)
             THEN calls[r][n].jobs ELSE <<>>)

\* The jobs of run r in the order of their individual calls.
IndividualOrder(r) == JobsOfCalls(r, Len(calls[r]), "single")

\* The jobs of the chunks of run r whose batch call failed, chunk after
\* chunk in the order the chunks failed.
DemotedOrder(r) == JobsOfCalls(r, Len(calls[r]), "failed")

\* The jobs of run r submitted with batchable = false, in original-index order.
NonBatchableOrder(r) == Idxs(SplitFrom(workReqArr[r], 1, FALSE))

\* C16, as claimed: the individual calls take the jobs of failed chunks
\* first, in the order the chunks failed, and then the non-batchable jobs
\* in original-index order.
C16_DemotedFirst ==
  \A r \in Runs :
    Done(r) => IndividualOrder(r) = DemotedOrder(r) \o NonBatchableOrder(r)

\* C16, amended: the individual calls take the non-batchable jobs first, in
\* original-index order, and then the jobs of failed chunks, in the order
\* the chunks failed.
C16_NonBatchableFirst ==
  \A r \in Runs :
    Done(r) => IndividualOrder(r) = NonBatchableOrder(r) \o DemotedOrder(r)

\* A non-batchable job and the jobs of two failed chunks were verified
\* individually.
C16_Witness ==
  /\ Done(1)
  /\ NonBatchableOrder(1) # <<>>
  /\ Cardinality(FailedBatchCalls(1)) = 2
  /\ Len(IndividualOrder(1)) = MaxJobs

\* Run r can take a step: it stands at the entry, at the batch call of a
\* chunk there is, at the individual call of an item there is, or at the
\* return (the guards of Split, TryBatch, VerifyIndividually and Return).
CanStep(r) ==
  \/ pc[r] = "entry"
  \/ pc[r] = "batch" /\ chunkIdx[r] \in 1..Len(batchableChunks[r])
  \/ pc[r] = "single" /\ nbIdx[r] \in 1..Len(nonBatchableSets[r])
  \/ pc[r] = "single" /\ nbIdx[r] = Len(nonBatchableSets[r]) + 1

\* The individual calls of run r that threw.
ThrownSingleCalls(r) == {k \in CallsOf(r, "single") : calls[r][k].out.kind = "throw"}

\* C17: whatever the primitive answers, no rejection leaves runBlsWorkReq:
\* a run that has started can always go on until it returns, it returns a
\* BlsWorkResult, and its Error entries are exactly the individual calls
\* that threw.
C17_NeverRejects ==
  \A r \in Runs :
    /\ pc[r] # "rejected"
    /\ pc[r] \in {"entry", "batch", "single"} => CanStep(r)
    /\ Done(r) =>
         /\ ret[r].returned
         /\ DOMAIN ret[r].results = Indices(r)
         /\ \A i \in Indices(r) :
              HasCode(ret[r].results, i, "error")
                <=> (\E k \in ThrownSingleCalls(r) : calls[r][k].jobs = <<i>>)

\* A batch call threw, an individual call threw, another job got a Success
\* entry, and the run returned.
C17_Witness ==
  /\ Done(1)
  /\ ret[1].returned
  /\ \E c \in FailedBatchCalls(1) : calls[1][c].out.kind = "throw"
  /\ ThrownSingleCalls(1) # {}
  /\ \E i \in Indices(1) : HasCode(ret[1].results, i, "success")

\* Everything run r holds.
RunState(r) ==
  <<pc[r], workReqArr[r], results[r], batchRetries[r], batchSigsSuccess[r],
    batchableSets[r], nonBatchableSets[r], batchableChunks[r], chunkIdx[r], nbIdx[r],
    calls[r], ret[r]>>

\* C18 (state part): a run returns what it returns when run alone.
C18_SameAsAlone ==
  \A r \in Runs :
    Done(r) => ret[r].returned /\ Outcome(ret[r]) = RunAlone(workReqArr[r])

\* C18 (step part): a step of one run changes nothing another run holds.
C18_OneRunPerStep ==
  \A r1, r2 \in Runs :
    r1 # r2 => (RunState(r1)' = RunState(r1) \/ RunState(r2)' = RunState(r2))

\* C18: two executions that interleave at their await points each return the
\* results, batchRetries and batchSigsSuccess they return when run alone; no
\* counter, job list or result entry is shared.
C18_NoLeakBetweenRuns == []C18_SameAsAlone /\ [][C18_OneRunPerStep]_vars

\* Run 1 has returned, with a retry and an entry per job, while run 2, on
\* another request, stands at an await with calls made and calls to make.
C18_Witness ==
  /\ Done(1)
  /\ ret[1].batchRetries >= 1
  /\ DOMAIN ret[1].results = Indices(1)
  /\ workReqArr[1] # workReqArr[2]
  /\ pc[2] = "single"
  /\ calls[2] # <<>>
  /\ nbIdx[2] <= Len(nonBatchableSets[2])
  /\ batchSigsSuccess[2] >= 1

\* C19: for an empty request array no call of the primitive is made and the
\* run returns an empty results array with both counters at 0.
C19_EmptyRequest ==
  \A r \in Runs :
    (workReqArr[r] = <<>> /\ pc[r] # "idle") =>
      /\ calls[r] = <<>>
      /\ Done(r) =>
           /\ ret[r].returned
           /\ ret[r].results = EmptyArray
           /\ ArrayLength(ret[r].results) = 0
           /\ ret[r].batchRetries = 0
           /\ ret[r].batchSigsSuccess = 0

\* The run of the empty request array has returned.
C19_Witness ==
  /\ Done(1)
  /\ workReqArr[1] = <<>>
  /\ ret[1].returned

\* The status s describes keystore i of the request: the error of its own
\* missing password or unreadable text, duplicate for a key the store holds
\* that was never queued, or else what its own queued task ended with.
DescribesKeystore(i, s) ==
  IF passwords[i] = Undefined THEN s = ErrorStatus(NoPasswordMessage(i))
  ELSE IF ~keystores[i].json THEN s = ErrorStatus("Invalid keystore")
  ELSE IF i \notin DOMAIN decryptTasks
    THEN s = DuplicateStatus /\ hasVotingPubkey(signers, keystores[i].pubkey)
  ELSE /\ decryptTasks[i].state = "settled"
       /\ s = decryptTasks[i].status
       /\ s.status \in {"imported", "error"}
       /\ s.status = "imported" =>
            /\ hasVotingPubkey(signers, keystores[i].pubkey)
            /\ keystores[i].pubkey \in persistedKeys

\* C20: when importKeystores returns, the statuses array is as long as
\* keystores and statuses[i] is defined and describes keystore i, for every
\* i, whatever order the queued decryption callbacks completed in.
C20_StatusPerKeystore ==
  kmPc = "done" =>
    /\ kmRet.returned
    /\ ArrayLength(kmRet.data) = Len(keystores)
    /\ \A i \in 1..Len(keystores) :
         i \in DOMAIN kmRet.data /\ DescribesKeystore(i, kmRet.data[i])

\* importKeystores returned a duplicate, an imported and an error status
\* after the callback of a later keystore completed before that of an
\* earlier one.
C20_Witness ==
  /\ kmPc = "done"
  /\ kmRet.returned
  /\ Len(keystores) = MaxKeystores
  /\ \E a, b \in 1..Len(settled) : a < b /\ settled[a] > settled[b]
  /\ \A st \in {"duplicate", "imported", "error"} :
       \E i \in DOMAIN kmRet.data : kmRet.data[i].status = st

\* deleteKeys has returned.
DeleteKeysDone == kmPc = "done" /\ kmRet.returned /\ kmRet.call = "deleteKeys"

\* C21, as claimed: the slashing protection data deleteKeys returns is of
\* pubkeys of the request whose status is deleted or not_active; none is
\* returned for a pubkey whose status is error or not_found.
C21_DataOnlyForDeletedOrNotActive ==
  DeleteKeysDone =>
    /\ \A q \in kmRet.data.slashingProtection :
         \E i \in 1..Len(pubkeys) :
           /\ pubkeys[i] = q
           /\ kmRet.data.statuses[i].status \in {"deleted", "not_active"}
    /\ \A i \in 1..Len(pubkeys) :
         kmRet.data.statuses[i].status \in {"error", "not_found"}
           => pubkeys[i] \notin kmRet.data.slashingProtection

\* The positions of the log at which `op` was done for pubkeyHex.
LogPositions(log, op, pubkeyHex) ==
  {k \in 1..Len(log) : log[k] = LogEntry(op, pubkeyHex)}

\* C22 (the loop): for every requested key a local signer holds, the loop
\* removes the signer from the store, and whenever it deletes the keystore
\* of that key from disk the signer has been removed before.
C22_RemovedBeforeDeleted ==
  kmPc = "deleteKeys" =>
    \A i \in 1..Len(pubkeys) :
      IsLocal(signers, pubkeys[i]) =>
        /\ pubkeys[i] \notin DOMAIN signers'
        /\ LogPositions(kmLog', "removeSigner", pubkeys[i]) # {}
        /\ \A b \in LogPositions(kmLog', "deleteKeystore", pubkeys[i]) :
             \E a \in LogPositions(kmLog', "removeSigner", pubkeys[i]) : a < b

\* C22 (the export): when the slashing protection data is exported, the
\* loop has gone over every requested key, and nothing is removed or
\* deleted after the export.
C22_ExportedLast ==
  \A k \in LogPositions(kmLog, "exportInterchange", "") :
    /\ k = Len(kmLog)
    /\ \A i \in 1..Len(pubkeys) :
         isValidatePubkeyHex(pubkeys[i]) =>
           \E b \in LogPositions(kmLog, "deleteKeystore", pubkeys[i]) : b < k

\* C22: in deleteKeys the signer of a local key is removed from the
\* in-memory store before the keystore of the key is deleted from disk, and
\* the slashing protection data is exported only after every requested key
\* has been processed.
C22_StopSigningThenDelete == []C22_ExportedLast /\ [][C22_RemovedBeforeDeleted]_vars

\* deleteKeys returned after removing two local signers, deleting their
\* keystores and exporting.
C22_Witness ==
  /\ DeleteKeysDone
  /\ \A q \in Pubkeys :
       /\ LogPositions(kmLog, "removeSigner", q) # {}
       /\ LogPositions(kmLog, "deleteKeystore", q) # {}
       /\ q \notin persistedKeys
  /\ LogPositions(kmLog, "exportInterchange", "") # {}

\* The jobs of call c of run r, as a set.
JobSet(r, c) == {calls[r][c].jobs[j] : j \in 1..Len(calls[r][c].jobs)}

\* C23: the batch phase writes nothing but Success{true}; the entries of
\* the jobs of a failed chunk are unset when the batch call fails and stay
\* unset until the individual call of each, and every Success{false} or
\* Error entry is written by the individual phase.
C23_BatchWritesOnlyTrue ==
  \A r \in Runs :
    /\ \A k \in 1..Len(writes[r]) :
         /\ writes[r][k].by = "batch" => writes[r][k].value = SuccessResult(TRUE)
         /\ writes[r][k].value # SuccessResult(TRUE) => writes[r][k].by = "single"
    /\ pc[r] = "batch" =>
         \A i \in DOMAIN results[r] : results[r][i] = SuccessResult(TRUE)
    /\ \A c \in FailedBatchCalls(r) : \A i \in JobSet(r, c) :
         SingleCallsFor(r, i) = {} => i \notin DOMAIN results[r]

\* In the batch phase still: one chunk has been written Success{true},
\* another has failed and the entries of its jobs are unset.
C23_Witness ==
  /\ pc[1] = "batch"
  /\ \E k \in 1..Len(writes[1]) : writes[1][k].by = "batch"
  /\ \E c \in FailedBatchCalls(1) :
       /\ JobSet(1, c) # {}
       /\ \A i \in JobSet(1, c) : i \notin DOMAIN results[1]

\* C24: an individual call is made only for a job that is non-batchable or
\* belongs to a chunk whose batch call, made before, failed; and once the
\* batch phase is over every batchable job has been in a batch call,
\* whatever the number of batchable jobs and sets.
C24_BatchFirst ==
  \A r \in Runs :
    Chunked(r) =>
      /\ \A k \in CallsOf(r, "single") : \A i \in JobSet(r, k) :
           \/ ~workReqArr[r][i].opts.batchable
           \/ \E c \in FailedBatchCalls(r) : c < k /\ i \in JobSet(r, c)
      /\ pc[r] \in {"single", "done"} =>
           \A i \in Indices(r) :
             workReqArr[r][i].opts.batchable =>
               \E c \in CallsOf(r, "batch") : i \in JobSet(r, c)

\* The request holds one batchable job of one set: it went through a batch
\* call, which failed, and then through its individual call.
C24_Witness ==
  /\ Done(1)
  /\ Len(workReqArr[1]) = 1
  /\ workReqArr[1][1].opts.batchable
  /\ Len(workReqArr[1][1].sets) = 1
  /\ \E c \in FailedBatchCalls(1) : c = 1 /\ calls[1][c].jobs = <<1>>
  /\ SingleCallsFor(1, 1) = {2}

\* The sets of the jobs of a list of original indices of run r, job after
\* job, each job's sets in their order.
SetsOfJobs(r, jobs) == Concat([j \in 1..Len(jobs) |-> workReqArr[r][jobs[j]].sets])

\* C25: the calls of a run are made one after the other: first the batch
\* calls, the k-th of them for the k-th chunk, the chunks following the
\* input order of the batchable jobs and the sets of a call following job
\* order then set order; the first individual call comes after the batch
\* call of the last chunk.
C25_CallOrder ==
  \A r \in Runs :
    Chunked(r) =>
      /\ \A b \in CallsOf(r, "batch") :
           /\ b <= Len(batchableChunks[r])
           /\ calls[r][b].jobs = Idxs(batchableChunks[r][b])
           /\ calls[r][b].sets = SetsOfJobs(r, calls[r][b].jobs)
      /\ LET batched == JobsOfCalls(r, Len(calls[r]), "batch")
         IN batched = SubSeq(Idxs(SplitFrom(workReqArr[r], 1, TRUE)), 1, Len(batched))
      /\ \A k \in CallsOf(r, "single") :
           /\ k > Len(batchableChunks[r])
           /\ CallsOf(r, "batch") = 1..Len(batchableChunks[r])
           /\ calls[r][k].sets = SetsOfJobs(r, calls[r][k].jobs)

\* Two chunks were submitted, one of them with two jobs of different sets,
\* and individual calls followed.
C25_Witness ==
  /\ Done(1)
  /\ Cardinality(CallsOf(1, "batch")) = 2
  /\ \E b \in CallsOf(1, "batch") :
       /\ calls[1][b].jobs = <<2, 3>>
       /\ workReqArr[1][2].sets # workReqArr[1][3].sets
       /\ workReqArr[1][2].sets # <<>>
       /\ workReqArr[1][3].sets # <<>>
  /\ CallsOf(1, "single") # {}

\* The positions of the log at which `op` was done for keystores[i].
ImportPositions(op, i) == {k \in 1..Len(kmLog) : kmLog[k] = ImportEntry(op, i)}

\* keystores[i] has a password, is the text of a keystore, and the store
\* holds its pubkey.
IsDuplicate(store, i) ==
  /\ passwords[i] # Undefined
  /\ keystores[i].json
  /\ hasVotingPubkey(store, keystores[i].pubkey)

\* C26 (the loop): a keystore whose pubkey the store holds gets status
\* duplicate and is not queued for decryption.
C26_DuplicateNotQueued ==
  (kmPc = "loop" /\ kmPc' = "completed") =>
    \A i \in 1..Len(keystores) :
      IsDuplicate(signers, i) =>
        /\ i \in DOMAIN statuses' /\ statuses'[i] = DuplicateStatus
        /\ i \notin DOMAIN decryptTasks'

\* C26 (the callbacks): a callback changes the status of its own index only.
C26_OwnIndexOnly ==
  kmPc = "completed" =>
    /\ \A j \in DOMAIN statuses : j \in DOMAIN statuses' /\ statuses'[j] = statuses[j]
    /\ Cardinality(DOMAIN statuses' \ DOMAIN statuses) <= 1

\* C26 (the order): a keystore that was not queued is never decrypted nor
\* written; a signer is added only after its keystore was decrypted and
\* written to disk; the status is imported only after the write and the
\* addition, both done; a task that failed has error at its own index.
C26_WriteThenAdd ==
  \A i \in 1..Len(keystores) :
    /\ i \notin DOMAIN decryptTasks =>
         \A op \in {"decryptKeystore", "writeKeystore", "addSigner"} :
           ImportPositions(op, i) = {}
    /\ \A c \in ImportPositions("addSigner", i) :
         \E b \in ImportPositions("writeKeystore", i) : b < c
    /\ \A b \in ImportPositions("writeKeystore", i) :
         \E a \in ImportPositions("decryptKeystore", i) : a < b
    /\ (i \in DOMAIN statuses /\ statuses[i] = ImportedStatus) =>
         /\ ImportPositions("writeKeystore", i) # {}
         /\ ImportPositions("addSigner", i) # {}
         /\ keystores[i].pubkey \in persistedKeys
         /\ hasVotingPubkey(signers, keystores[i].pubkey)
    /\ (i \in DOMAIN decryptTasks /\ decryptTasks[i].state = "settled"
        /\ ImportPositions("addSigner", i) = {}) =>
         /\ i \in DOMAIN statuses
         /\ statuses[i].status = "error"

RECURSIVE CallsToCome(_, _)
\* The calls run r has still to make for its chunks from k on when all of
\* them fail: one batch call and one individual call per job.
CallsToCome(r, k) ==
  IF k > Len(batchableChunks[r]) THEN 0
  ELSE 1 + Len(batchableChunks[r][k]) + CallsToCome(r, k + 1)

\* A bound on the steps run r has still to take.
StepsLeft(r) ==
  CASE pc[r] = "entry" -> 2 + 2 * Len(workReqArr[r])
    [] pc[r] = "batch" ->
         1 + CallsToCome(r, chunkIdx[r]) + (Len(nonBatchableSets[r]) + 1 - nbIdx[r])
    [] pc[r] = "single" -> 1 + (Len(nonBatchableSets[r]) + 1 - nbIdx[r])
    [] OTHER -> 0

\* The jobs of run r that are verified individually: the non-batchable ones
\* and those of the chunks whose batch call failed.
IndividualJobs(r) ==
  {i \in Indices(r) : ~workReqArr[r][i].opts.batchable}
    \cup UNION {JobSet(r, c) : c \in FailedBatchCalls(r)}

\* C27 (the calls): a chunk has at most one batch call and a job at most one
\* individual call; a job of a chunk whose batch call returned true has no
\* other call; at the return there was exactly one batch call per chunk and
\* exactly one individual call per non-batchable job and per job of a
\* failed chunk, and no other call.
C27_CallCount ==
  \A r \in Runs :
    Chunked(r) =>
      /\ CallsOf(r, "batch") \subseteq 1..Len(batchableChunks[r])
      /\ Len(calls[r]) <= Len(batchableChunks[r]) + Len(workReqArr[r])
      /\ \A i \in Indices(r) :
           /\ Cardinality(SingleCallsFor(r, i)) <= 1
           /\ Cardinality({c \in CallsOf(r, "batch") : i \in JobSet(r, c)}) <= 1
           /\ (\E c \in VerifiedBatchCalls(r) : i \in JobSet(r, c))
                => SingleCallsFor(r, i) = {}
      /\ Done(r) =>
           /\ CallsOf(r, "batch") = 1..Len(batchableChunks[r])
           /\ \A i \in Indices(r) :
                Cardinality(SingleCallsFor(r, i)) = IF i \in IndividualJobs(r) THEN 1 ELSE 0
           /\ Len(calls[r]) = Len(batchableChunks[r]) + Cardinality(IndividualJobs(r))

\* C27 (the steps): every step of a run lowers the bound on the steps it
\* has left.
C27_Progress ==
  \A r \in Runs : RunState(r)' # RunState(r) => StepsLeft(r)' < StepsLeft(r)

\* C27: runBlsWorkReq returns after a bounded number of calls of the
\* primitive: one batch call per chunk, one individual call per
\* non-batchable job and per job of a failed chunk, none for a job whose
\* chunk verified and never two individual calls for one job.
C27_BoundedCalls == []C27_CallCount /\ [][C27_Progress]_vars /\ <>Done(1)

\* The run returned after a batch call that verified, one that failed and
\* the individual calls of the failed chunk and of a non-batchable job.
C27_Witness ==
  /\ Done(1)
  /\ VerifiedBatchCalls(1) # {}
  /\ FailedBatchCalls(1) # {}
  /\ \E i \in Indices(1) : ~workReqArr[1][i].opts.batchable
  /\ Len(calls[1]) = Len(batchableChunks[1]) + Cardinality(IndividualJobs(1))

RECURSIVE SetsDemoted(_, _)
\* The number of sets of the batch calls, among the first n calls of run r,
\* that returned false or threw.
SetsDemoted(r, n) ==
  IF n = 0 THEN 0
  ELSE SetsDemoted(r, n - 1)
       + (IF calls[r][n].phase = "batch" /\ ~OutIsTrue(calls[r][n].out)
            THEN Len(calls[r][n].sets) ELSE 0)

\* The number of sets of the batchable jobs of run r.
BatchableSetCount(r) == SetCount(SplitFrom(workReqArr[r], 1, TRUE))

\* C28: at the return, batchSigsSuccess plus the sets of the jobs demoted
\* from failed chunks is the number of sets of the batchable jobs,
\* batchRetries is at most the number of chunks, and both counters are 0
\* when no job of the request is batchable.
C28_CounterBalance ==
  \A r \in Runs :
    Done(r) =>
      /\ ret[r].batchSigsSuccess + SetsDemoted(r, Len(calls[r])) = BatchableSetCount(r)
      /\ ret[r].batchRetries <= Len(batchableChunks[r])
      /\ ret[r].batchRetries >= 0
      /\ (\A i \in Indices(r) : ~workReqArr[r][i].opts.batchable) =>
           ret[r].batchRetries = 0 /\ ret[r].batchSigsSuccess = 0

\* The run returned with sets counted as verified in a batch, sets demoted
\* from a chunk that threw, and a non-batchable job.
C28_Witness ==
  /\ Done(1)
  /\ ret[1].batchSigsSuccess >= 1
  /\ SetsDemoted(1, Len(calls[1])) >= 1
  /\ \E c \in FailedBatchCalls(1) : calls[1][c].out.kind = "throw"
  /\ \E i \in Indices(1) : ~workReqArr[1][i].opts.batchable

\* The step is the call `op` of a proposer config operation.
IsProposerCall(op) == kmLog' = Append(kmLog, op)

\* C29: with proposerConfigWriteDisabled = true every set* and delete*
\* call, for any of the four fields, throws and leaves the config of the
\* validator store and the persisted config as they were; every list* and
\* get* call returns the stored value.
C29_WriteDisabledFrame ==
  \A field \in ProposerFields :
    /\ \A kind \in {"set", "delete"} :
         (proposerConfigWriteDisabled /\ IsProposerCall(ProposerEntry(kind, field))) =>
           /\ kmRet' = Thrown("proposerSettingsFile option activated")
           /\ proposerConfig' = proposerConfig
           /\ persistedProposerConfig' = persistedProposerConfig
    /\ (proposerConfigWriteDisabled /\ IsProposerCall(ProposerEntry("get", field))) =>
         /\ kmRet'.returned
         /\ \E q \in Pubkeys :
              kmRet'.data = [pubkey |-> q, value |-> proposerConfig[q][field]]
         /\ proposerConfig' = proposerConfig
         /\ persistedProposerConfig' = persistedProposerConfig

C29_WriteDisabled == [][C29_WriteDisabledFrame]_vars

\* With writes disabled a set, a delete and a get were called: the configs
\* are those of the start and the get returned the stored value.
C29_Witness ==
  /\ proposerConfigWriteDisabled
  /\ Len(kmLog) = 3
  /\ kmLog[1].kind = "set"
  /\ kmLog[2].kind = "delete"
  /\ kmLog[3].kind = "get"
  /\ kmRet.returned
  /\ kmRet.data.value = "0x00"
  /\ persistedProposerConfig = proposerConfig

\* The step keeps every signer of the given type, and its duties.
KeepsSigners(type) ==
  \A q \in DOMAIN signers :
    signers[q] = type =>
      /\ q \in DOMAIN signers'
      /\ signers'[q] = type
      /\ q \in duties => q \in duties'

\* C30 (one step): the loop of deleteKeys keeps every remote signer and its
\* duties, deleteRemoteKeys keeps every local signer and its duties, and
\* the export that ends deleteKeys removes no signer at all.
C30_KeepsOtherType ==
  /\ kmPc = "deleteKeys" => KeepsSigners("remote")
  /\ kmPc = "deleteRemoteKeys" => KeepsSigners("local")
  /\ kmPc = "export" => signers' = signers /\ duties' = duties

\* C30: deleteKeys never removes a remote signer from the validator store
\* and deleteRemoteKeys never removes a local one: the signers of the other
\* type that were there before the call are there after it, with their
\* duties.
C30_OtherTypeUntouched == [][C30_KeepsOtherType]_vars

\* deleteKeys returned: it was asked to delete a local key and a remote
\* key; the local signer is gone, the remote signer and its duties are
\* still there.
C30_Witness ==
  /\ DeleteKeysDone
  /\ \E i, j \in 1..Len(pubkeys) :
       /\ LogPositions(kmLog, "removeSigner", pubkeys[i]) # {}
       /\ pubkeys[i] \notin DOMAIN signers
       /\ getSigner(signers, pubkeys[j]) = "remote"
       /\ pubkeys[j] \in duties
       /\ kmRet.data.statuses[i].status = "deleted"
       /\ kmRet.data.statuses[j].status \in {"not_active", "not_found"}

====
